---- MODULE Spec2Model ----
(***************************************************************************)
(* Verification model of the HTTP request smuggling scanner                *)
(* (SameerEmVi/Project29, directory smuggler/): payload builders,          *)
(* response comparison, the weighted confidence detector and the scanner   *)
(* that sequences baseline capture and the technique probes.               *)
(*                                                                         *)
(* Go strings are TLA+ strings (TLC evaluates Len, \o and SubSeq on them), *)
(* Go maps are functions whose DOMAIN is the key set, and float64 values   *)
(* are exact binary fixed-point numbers with IEEE-754 round-to-nearest-    *)
(* even additions, so that threshold comparisons behave as in the program. *)
(***************************************************************************)
EXTENDS Integers, Sequences, FiniteSets, TLC

(***************************************************************************)
(* float64.  A value v in [0, 2] is <<h, m, l>> with                       *)
(*   v = (h * Base^2 + m * Base + l) / 2^56,   Base = 2^19.                *)
(* Every float64 in {0} \cup [1/16, 2] lies on this grid.                  *)
(***************************************************************************)
Base == 524288

F64Zero == <<0, 0, 0>>

\* exact sum of two grid values
Add3(a, b) ==
  LET l == a[3] + b[3]
      m == a[2] + b[2] + (l \div Base)
      h == a[1] + b[1] + (m \div Base)
  IN  <<h, m % Base, l % Base>>

Pow2(k) == IF k = 0 THEN 1 ELSE IF k = 1 THEN 2 ELSE IF k = 2 THEN 4
           ELSE IF k = 3 THEN 8 ELSE IF k = 4 THEN 16 ELSE 32

\* number of low bits of the grid value that do not fit a 53-bit mantissa
DropBits(h) == IF h >= 262144 THEN 4 ELSE IF h >= 131072 THEN 3
               ELSE IF h >= 65536 THEN 2 ELSE IF h >= 32768 THEN 1 ELSE 0

\* round away the k low bits, ties to even; sticky: a nonzero part lies below the grid
RoundAt(x, k, sticky) ==
  IF k = 0 THEN x
  ELSE LET p    == Pow2(k)
           q    == x[3] \div p
           r    == x[3] % p
           half == p \div 2
           up   == (r > half) \/ (r = half /\ (sticky \/ q % 2 = 1))
       IN  Add3(<<x[1], x[2], 0>>, <<0, 0, (IF up THEN q + 1 ELSE q) * p>>)

\* a + b as the hardware computes it
F64Add(a, b) == LET s == Add3(a, b) IN RoundAt(s, DropBits(s[1]), FALSE)

Half3(x) == <<x[1] \div 2,
              (x[2] \div 2) + (x[1] % 2) * (Base \div 2),
              (x[3] \div 2) + (x[2] % 2) * (Base \div 2)>>

\* the float64 nearest to the decimal literal n/100 (n = 0 or 7 <= n <= 200):
\* n * 2^57 / 100 by long division, rounded to 53 bits, halved onto the grid
F64(n) ==
  LET qh == (n * Base) \div 100
      r1 == (n * Base) % 100
      qm == (r1 * Base) \div 100
      r2 == (r1 * Base) % 100
      ql == (r2 * Base) \div 100
      r3 == (r2 * Base) % 100
  IN  Half3(RoundAt(<<qh, qm, ql>>, DropBits(qh \div 2) + 1, r3 # 0))

F64Lt(a, b) == \/ a[1] < b[1]
               \/ a[1] = b[1] /\ a[2] < b[2]
               \/ a[1] = b[1] /\ a[2] = b[2] /\ a[3] < b[3]
F64Gt(a, b) == F64Lt(b, a)
F64Ge(a, b) == ~F64Lt(a, b)

(***************************************************************************)
(* Go strings: package strings on ASCII text.                              *)
(***************************************************************************)
UpperAlpha == "ABCDEFGHIJKLMNOPQRSTUVWXYZ"
LowerAlpha == "abcdefghijklmnopqrstuvwxyz"

CharAt(s, i) == SubSeq(s, i, i)

\* position of the one-byte string c in alphabet, 0 when absent
IndexByte(alphabet, c) ==
  IF \E i \in 1..Len(alphabet) : CharAt(alphabet, i) = c
  THEN CHOOSE i \in 1..Len(alphabet) : CharAt(alphabet, i) = c
  ELSE 0

LowerChar(c) == LET i == IndexByte(UpperAlpha, c)
                IN  IF i = 0 THEN c ELSE CharAt(LowerAlpha, i)
UpperChar(c) == LET i == IndexByte(LowerAlpha, c)
                IN  IF i = 0 THEN c ELSE CharAt(UpperAlpha, i)

RECURSIVE ToLower(_)
ToLower(s) == IF s = "" THEN ""
              ELSE LowerChar(CharAt(s, 1)) \o ToLower(SubSeq(s, 2, Len(s)))

RECURSIVE ToUpper(_)
ToUpper(s) == IF s = "" THEN ""
              ELSE UpperChar(CharAt(s, 1)) \o ToUpper(SubSeq(s, 2, Len(s)))

EqualFold(a, b) == ToLower(a) = ToLower(b)

Contains(s, sub) ==
  \E i \in 1..(Len(s) - Len(sub) + 1) : SubSeq(s, i, i + Len(sub) - 1) = sub

\* strings.Repeat
RECURSIVE Repeat(_, _)
Repeat(s, n) == IF n = 0 THEN ""
                ELSE IF n % 2 = 0 THEN LET h == Repeat(s, n \div 2) IN h \o h
                ELSE s \o Repeat(s, n - 1)

\* printable ASCII in byte order (quotes, backslash and backquote left out)
Ascii == " !#$%&()*+,-./0123456789:;<=>?@ABCDEFGHIJKLMNOPQRSTUVWXYZ[]^_abcdefghijklmnopqrstuvwxyz{|}~"

\* a < b as Go compares strings (byte-wise)
RECURSIVE StrLess(_, _)
StrLess(a, b) ==
  IF a = "" THEN b # ""
  ELSE IF b = "" THEN FALSE
  ELSE LET x == IndexByte(Ascii, CharAt(a, 1))
           y == IndexByte(Ascii, CharAt(b, 1))
       IN  IF x # y THEN x < y
           ELSE StrLess(SubSeq(a, 2, Len(a)), SubSeq(b, 2, Len(b)))

\* sort.Strings of a key set
RECURSIVE SortStrings(_)
SortStrings(S) ==
  IF S = {} THEN <<>>
  ELSE LET k == CHOOSE k \in S : \A j \in S \ {k} : StrLess(k, j)
       IN  <<k>> \o SortStrings(S \ {k})

Digits == "0123456789"

\* strconv.Itoa and the %d verb, for n >= 0
RECURSIVE Itoa(_)
Itoa(n) == IF n < 10 THEN CharAt(Digits, n + 1)
           ELSE Itoa(n \div 10) \o CharAt(Digits, (n % 10) + 1)

\* strings.Index: position (from 1) of the first occurrence of sub in s, 0 when absent
Index(s, sub) ==
  LET hits == { i \in 1..(Len(s) - Len(sub) + 1) : SubSeq(s, i, i + Len(sub) - 1) = sub }
  IN  IF hits = {} THEN 0 ELSE CHOOSE i \in hits : \A j \in hits : i <= j

\* a map[string]string with no entries
EmptyMap == [k \in {} |-> ""]

(***************************************************************************)
(* models.HTTPResponse values live in a heap (a sequence); a pointer is an *)
(* index into it and 0 is nil.                                             *)
(***************************************************************************)
Nil == 0

HTTPResponse(raw, status, headers, body, timing, closed, err) ==
  [Raw |-> raw, StatusCode |-> status, Headers |-> headers, Body |-> body,
   TimingMS |-> timing, ConnectionClosed |-> closed, Error |-> err]

(***************************************************************************)
(* baseline.Manager.CompareResponses                                       *)
(***************************************************************************)
\* normalizeHeaderMap: keys lower-cased.  When two keys differ only in case
\* the entry written last wins, and Go leaves the map iteration order
\* unspecified: every surviving value is a possible outcome.
normalizeHeaderMap(src) ==
  LET keys == { ToLower(k) : k \in DOMAIN src }
  IN  { out \in [keys -> { src[k] : k \in DOMAIN src }] :
          \A lk \in keys : \E k \in DOMAIN src : ToLower(k) = lk /\ out[lk] = src[k] }

\* the three header delta maps for one pair of normalised maps
analyzeHeaderChanges(baseHeaders, testHeaders) ==
  LET removedKeys  == { k \in DOMAIN baseHeaders : k \notin DOMAIN testHeaders }
      modifiedKeys == { k \in DOMAIN baseHeaders :
                          k \in DOMAIN testHeaders /\ baseHeaders[k] # testHeaders[k] }
      addedKeys    == { k \in DOMAIN testHeaders : k \notin DOMAIN baseHeaders }
  IN  [HeadersAdded    |-> [k \in addedKeys |-> testHeaders[k]],
       HeadersRemoved  |-> [k \in removedKeys |-> baseHeaders[k]],
       HeadersModified |-> [k \in modifiedKeys |-> testHeaders[k]]]

\* the entries analyzeHeaderChanges appends to Changes
headerChangeNotes(hd) ==
  (IF DOMAIN hd.HeadersAdded # {} THEN << <<"Headers added", DOMAIN hd.HeadersAdded>> >> ELSE <<>>)
  \o (IF DOMAIN hd.HeadersRemoved # {} THEN << <<"Headers removed", DOMAIN hd.HeadersRemoved>> >> ELSE <<>>)
  \o (IF DOMAIN hd.HeadersModified # {} THEN << <<"Headers modified", DOMAIN hd.HeadersModified>> >> ELSE <<>>)

\* the comparison of heap[b] with heap[t] once both header maps are normalised
compareWith(heap, b, t, baseHeaders, testHeaders) ==
  LET baseline   == heap[b]
      test       == heap[t]
      statusCh   == baseline.StatusCode # test.StatusCode
      timingDiff == test.TimingMS - baseline.TimingMS
      connCh     == baseline.ConnectionClosed # test.ConnectionClosed
      hd         == analyzeHeaderChanges(baseHeaders, testHeaders)
      bodyCh     == baseline.Body # test.Body
      sizeDiff   == IF bodyCh THEN Len(test.Body) - Len(baseline.Body) ELSE 0
  IN  [Baseline |-> b, Test |-> t,
       StatusCodeChanged |-> statusCh,
       OldStatusCode |-> IF statusCh THEN baseline.StatusCode ELSE 0,
       NewStatusCode |-> IF statusCh THEN test.StatusCode ELSE 0,
       TimingDiffMS |-> timingDiff,
       ConnectionBehaviorChanged |-> connCh,
       OldConnectionClosed |-> IF connCh THEN baseline.ConnectionClosed ELSE FALSE,
       NewConnectionClosed |-> IF connCh THEN test.ConnectionClosed ELSE FALSE,
       HeadersAdded |-> hd.HeadersAdded,
       HeadersRemoved |-> hd.HeadersRemoved,
       HeadersModified |-> hd.HeadersModified,
       BodySizeDiff |-> sizeDiff,
       BodyChanged |-> bodyCh,
       Changes |->
         (IF statusCh
            THEN << <<"Status code changed", baseline.StatusCode, test.StatusCode>> >> ELSE <<>>)
         \o (IF baseline.TimingMS > 0 /\ (timingDiff > 100 \/ timingDiff < -100)
               THEN << <<"Timing changed", baseline.TimingMS, test.TimingMS, timingDiff>> >> ELSE <<>>)
         \o (IF connCh
               THEN << <<"Connection behavior changed", baseline.ConnectionClosed, test.ConnectionClosed>> >>
               ELSE <<>>)
         \o headerChangeNotes(hd)
         \o (IF bodyCh
               THEN << <<"Body changed", Len(baseline.Body), Len(test.Body), sizeDiff>> >> ELSE <<>>)
         \o (IF baseline.Error # test.Error
               THEN << <<"Error state changed", baseline.Error, test.Error>> >> ELSE <<>>)]

\* the comparison returned for a nil argument
invalidComparison(b, t) ==
  [Baseline |-> b, Test |-> t,
   StatusCodeChanged |-> FALSE, OldStatusCode |-> 0, NewStatusCode |-> 0,
   TimingDiffMS |-> 0,
   ConnectionBehaviorChanged |-> FALSE,
   OldConnectionClosed |-> FALSE, NewConnectionClosed |-> FALSE,
   HeadersAdded |-> EmptyMap, HeadersRemoved |-> EmptyMap, HeadersModified |-> EmptyMap,
   BodySizeDiff |-> 0, BodyChanged |-> FALSE,
   Changes |-> << <<"invalid baseline/test response">> >>]

\* every comparison CompareResponses(baseline, test) can return
CompareResponses(heap, b, t) ==
  IF b = Nil \/ t = Nil
  THEN { invalidComparison(b, t) }
  ELSE { compareWith(heap, b, t, bh, th) :
           bh \in normalizeHeaderMap(heap[b].Headers),
           th \in normalizeHeaderMap(heap[t].Headers) }

(***************************************************************************)
(* detector.Detector                                                       *)
(***************************************************************************)
\* NewDetector: the default confidenceThreshold, in hundredths
DefaultThreshold == 50

\* SetConfidenceThreshold: the value stored for a requested threshold.
\* Requests are decimal literals in hundredths and may be negative.
SetConfidenceThreshold(threshold) ==
  IF threshold < 0 THEN F64(0)
  ELSE IF F64Gt(F64(threshold), F64(100)) THEN F64(100)
  ELSE F64(threshold)

headerExistsCaseInsensitive(headers, target) ==
  \E k \in DOMAIN headers : EqualFold(k, target)

\* the local variables confidence, strongSignal and signals of an analyzer
NoSignals == [confidence |-> F64Zero, strongSignal |-> FALSE, signals |-> <<>>]

\* fire with  confidence = w  written for  confidence += w
fire_Assign(acc, cond, w, strong, signal) ==
  IF cond
  THEN [confidence   |-> F64(w),
        strongSignal |-> acc.strongSignal \/ strong,
        signals      |-> Append(acc.signals, signal)]
  ELSE acc

\* one  if cond { confidence += w; strongSignal = ...; signals = append(...) }
fire(acc, cond, w, strong, signal) ==
  IF cond
  THEN [confidence   |-> F64Add(acc.confidence, F64(w)),
        strongSignal |-> acc.strongSignal \/ strong,
        signals      |-> Append(acc.signals, signal)]
  ELSE acc

buildExplanation(technique, confidence, signals) ==
  [kind |-> "Potential vulnerability detected", technique |-> technique,
   confidence |-> confidence,
   signals |-> IF signals = <<>> THEN << <<"Behavioral anomaly detected">> >> ELSE signals]

\* finalizeResult explaining every verdict by its signals
finalizeResult_AlwaysExplains(thr, result, confidence0, strongSignal, comparison, technique, signals) ==
  LET confidence == IF F64Gt(confidence0, F64(100)) THEN F64(100) ELSE confidence0
      suspicious == strongSignal /\ F64Ge(confidence, thr)
  IN  [result EXCEPT
         !.Confidence = confidence,
         !.Suspicious = suspicious,
         !.ResponseTimeDiff = comparison.TimingDiffMS,
         !.Reason = buildExplanation(technique, confidence, signals)]

\* finalizeResult with the threshold comparison turned round
finalizeResult_BelowThreshold(thr, result, confidence0, strongSignal, comparison, technique, signals) ==
  LET confidence == IF F64Gt(confidence0, F64(100)) THEN F64(100) ELSE confidence0
      suspicious == strongSignal /\ F64Ge(thr, confidence)
  IN  [result EXCEPT
         !.Confidence = confidence,
         !.Suspicious = suspicious,
         !.ResponseTimeDiff = comparison.TimingDiffMS,
         !.Reason = IF suspicious
                      THEN buildExplanation(technique, confidence, signals)
                      ELSE [kind |-> "Insufficient evidence", technique |-> technique,
                            confidence |-> confidence, threshold |-> thr]]

\* finalizeResult without the strong-signal gate
finalizeResult_NoStrongGate(thr, result, confidence0, strongSignal, comparison, technique, signals) ==
  LET confidence == IF F64Gt(confidence0, F64(100)) THEN F64(100) ELSE confidence0
      suspicious == F64Ge(confidence, thr)
  IN  [result EXCEPT
         !.Confidence = confidence,
         !.Suspicious = suspicious,
         !.ResponseTimeDiff = comparison.TimingDiffMS,
         !.Reason = IF suspicious
                      THEN buildExplanation(technique, confidence, signals)
                      ELSE [kind |-> "Insufficient evidence", technique |-> technique,
                            confidence |-> confidence, threshold |-> thr]]

finalizeResult(thr, result, confidence0, strongSignal, comparison, technique, signals) ==
  LET confidence == IF F64Gt(confidence0, F64(100)) THEN F64(100) ELSE confidence0
      suspicious == strongSignal /\ F64Ge(confidence, thr)
  IN  [result EXCEPT
         !.Confidence = confidence,
         !.Suspicious = suspicious,
         !.ResponseTimeDiff = comparison.TimingDiffMS,
         !.Reason = IF suspicious
                      THEN buildExplanation(technique, confidence, signals)
                      ELSE [kind |-> "Insufficient evidence", technique |-> technique,
                            confidence |-> confidence, threshold |-> thr]]

\* &models.ScanResult{Target, Technique, BaselineResponse, TestResponse}
newScanResult(target, technique, b, t) ==
  [Target |-> target, Technique |-> technique, Suspicious |-> FALSE,
   Reason |-> [kind |-> ""], Confidence |-> F64Zero, ConfidenceScore |-> F64Zero,
   ResponseTimeDiff |-> 0, BaselineResponse |-> b, TestResponse |-> t]

\* AnalyzeCLTE with the timing signal firing at 30 ms as well
AnalyzeCLTE_AtLeast30(thr, target, c) ==
  LET s1 == fire(NoSignals, c.StatusCodeChanged /\ c.NewStatusCode = 400, 25, TRUE,
                 <<"Backend returned 400 (malformed request detection)">>)
      s2 == fire(s1, c.StatusCodeChanged /\ c.NewStatusCode >= 500, 35, TRUE,
                 <<"Backend returned 5xx error (possible parser confusion)">>)
      s3 == fire(s2, c.TimingDiffMS <= -30, 15, FALSE,
                 <<"Response ms faster (possible early rejection)", -c.TimingDiffMS>>)
      s4 == fire(s3, c.ConnectionBehaviorChanged /\ c.NewConnectionClosed, 20, TRUE,
                 <<"Server closed connection (possible state confusion)">>)
      s5 == fire(s4, c.BodyChanged /\ c.BodySizeDiff < -200, 15, FALSE,
                 <<"Response body bytes smaller (possible content absorption)", -c.BodySizeDiff>>)
      s6 == fire(s5, headerExistsCaseInsensitive(c.HeadersRemoved, "Transfer-Encoding"), 10, FALSE,
                 <<"Transfer-Encoding header removed by backend">>)
  IN  finalizeResult(thr, newScanResult(target, "CL.TE", c.Baseline, c.Test),
                     s6.confidence, s6.strongSignal, c, "CL.TE", s6.signals)

AnalyzeCLTE(thr, target, c) ==
  LET s1 == fire(NoSignals, c.StatusCodeChanged /\ c.NewStatusCode = 400, 25, TRUE,
                 <<"Backend returned 400 (malformed request detection)">>)
      s2 == fire(s1, c.StatusCodeChanged /\ c.NewStatusCode >= 500, 35, TRUE,
                 <<"Backend returned 5xx error (possible parser confusion)">>)
      s3 == fire(s2, c.TimingDiffMS < -30, 15, FALSE,
                 <<"Response ms faster (possible early rejection)", -c.TimingDiffMS>>)
      s4 == fire(s3, c.ConnectionBehaviorChanged /\ c.NewConnectionClosed, 20, TRUE,
                 <<"Server closed connection (possible state confusion)">>)
      s5 == fire(s4, c.BodyChanged /\ c.BodySizeDiff < -200, 15, FALSE,
                 <<"Response body bytes smaller (possible content absorption)", -c.BodySizeDiff>>)
      s6 == fire(s5, headerExistsCaseInsensitive(c.HeadersRemoved, "Transfer-Encoding"), 10, FALSE,
                 <<"Transfer-Encoding header removed by backend">>)
  IN  finalizeResult(thr, newScanResult(target, "CL.TE", c.Baseline, c.Test),
                     s6.confidence, s6.strongSignal, c, "CL.TE", s6.signals)

AnalyzeTECL(thr, target, c) ==
  LET s1 == fire(NoSignals, c.StatusCodeChanged /\ c.NewStatusCode = 400, 25, TRUE,
                 <<"Backend returned 400 (parsing error)">>)
      s2 == fire(s1, c.StatusCodeChanged /\ c.NewStatusCode >= 500, 35, TRUE,
                 <<"Backend returned 5xx error (server confusion)">>)
      s3 == fire(s2, c.TimingDiffMS > 1000, 25, FALSE,
                 <<"Response ms slower (possible chunk reassembly delay)", c.TimingDiffMS>>)
      s4 == fire(s3, c.ConnectionBehaviorChanged /\ c.NewConnectionClosed, 20, TRUE,
                 <<"Server closed connection (chunked parsing failure)">>)
      s5 == fire(s4, c.BodyChanged, 10, FALSE,
                 <<"Response body changed by bytes", c.BodySizeDiff>>)
      s6 == fire(s5, headerExistsCaseInsensitive(c.HeadersAdded, "Content-Length"), 10, FALSE,
                 <<"Content-Length header added by backend">>)
  IN  finalizeResult(thr, newScanResult(target, "TE.CL", c.Baseline, c.Test),
                     s6.confidence, s6.strongSignal, c, "TE.CL", s6.signals)

\* AnalyzeMixedTE scoring the timing signal of TE.CL as well
AnalyzeMixedTE_Timing(thr, target, c) ==
  LET s1 == fire(NoSignals, c.StatusCodeChanged /\ c.NewStatusCode = 400, 30, TRUE,
                 <<"Backend rejected mixed TE header">>)
      s2 == fire(s1, c.StatusCodeChanged /\ c.NewStatusCode >= 500, 40, TRUE,
                 <<"Server error from TE header ambiguity">>)
      s3 == fire(s2, c.TimingDiffMS > 1000, 25, FALSE,
                 <<"Response ms slower", c.TimingDiffMS>>)
      s4 == fire(s3, c.ConnectionBehaviorChanged /\ c.NewConnectionClosed, 20, TRUE,
                 <<"Connection reset (TE parser confusion)">>)
  IN  finalizeResult(thr, newScanResult(target, "Mixed-TE", c.Baseline, c.Test),
                     s4.confidence, s4.strongSignal, c, "Mixed-TE", s4.signals)

AnalyzeMixedTE(thr, target, c) ==
  LET s1 == fire(NoSignals, c.StatusCodeChanged /\ c.NewStatusCode = 400, 30, TRUE,
                 <<"Backend rejected mixed TE header">>)
      s2 == fire(s1, c.StatusCodeChanged /\ c.NewStatusCode >= 500, 40, TRUE,
                 <<"Server error from TE header ambiguity">>)
      s3 == fire(s2, c.ConnectionBehaviorChanged /\ c.NewConnectionClosed, 20, TRUE,
                 <<"Connection reset (TE parser confusion)">>)
  IN  finalizeResult(thr, newScanResult(target, "Mixed-TE", c.Baseline, c.Test),
                     s3.confidence, s3.strongSignal, c, "Mixed-TE", s3.signals)

AnalyzeObfuscatedTE(thr, target, c) ==
  LET s1 == fire(NoSignals, c.StatusCodeChanged /\ c.NewStatusCode = 400, 25, TRUE,
                 <<"Backend returned 400 (obfuscated TE rejection or malformed request)">>)
      s2 == fire(s1, c.StatusCodeChanged /\ c.NewStatusCode >= 500, 35, TRUE,
                 <<"Backend returned 5xx error (TE obfuscation parser confusion)">>)
      s3 == fire(s2, c.TimingDiffMS < -30, 15, FALSE,
                 <<"Response ms faster (obfuscated TE caused early rejection)", -c.TimingDiffMS>>)
      s4 == fire(s3, c.ConnectionBehaviorChanged /\ c.NewConnectionClosed, 20, TRUE,
                 <<"Server closed connection (TE obfuscation parser failure)">>)
      s5 == fire(s4, c.BodyChanged /\ c.BodySizeDiff < -200, 15, FALSE,
                 <<"Response body bytes smaller (obfuscated TE caused content absorption)", -c.BodySizeDiff>>)
      s6 == fire(s5, headerExistsCaseInsensitive(c.HeadersRemoved, "Transfer-Encoding"), 10, FALSE,
                 <<"Transfer-Encoding header removed (backend rejected obfuscation)">>)
  IN  finalizeResult(thr, newScanResult(target, "Obfuscated-TE", c.Baseline, c.Test),
                     s6.confidence, s6.strongSignal, c, "Obfuscated-TE", s6.signals)

(***************************************************************************)
(* payload: the Generator and the technique builders                       *)
(* (smuggling_payloads.go; the CL.TE builder also in its earlier revision).*)
(***************************************************************************)
NewGenerator(host, port) ==
  [host |-> host, port |-> port, method |-> "GET", path |-> "/", headers |-> EmptyMap]

SetPath(g, path) == [g EXCEPT !.path = path]

AddHeader(g, key, value) ==
  [g EXCEPT !.headers = [k \in DOMAIN g.headers \cup {key} |->
                           IF k = key THEN value ELSE g.headers[k]]]

RECURSIVE headerLines(_, _)
headerLines(headers, keys) ==
  IF keys = <<>> THEN ""
  ELSE Head(keys) \o ": " \o headers[Head(keys)] \o "\r\n" \o headerLines(headers, Tail(keys))

buildBaseRequest(g) ==
  g.method \o " " \o g.path \o " HTTP/1.1\r\n"
  \o "Host: " \o g.host \o ":" \o Itoa(g.port) \o "\r\n"
  \o headerLines(g.headers, SortStrings(DOMAIN g.headers))

GenerateBaseline(g) == buildBaseRequest(g) \o "Connection: close\r\n" \o "\r\n"

buildChunkedPrefix == "5\r\n0\r\n\r\n0\r\n\r\n"

GenerateCLTE(baseRequest, smoggledBody) ==
  LET body == buildChunkedPrefix \o smoggledBody
  IN  baseRequest
      \o "Transfer-Encoding: chunked\r\n"
      \o "Content-Length: " \o Itoa(Len(body)) \o "\r\n"
      \o "\r\n"
      \o body

\* the earlier revision of the CL.TE builder (cl_te.go)
GenerateCLTE_v1(baseRequest, smoggledBody) ==
  LET contentLengthValue == 4 + Len("\r\n")
  IN  baseRequest
      \o "Transfer-Encoding: chunked\r\n"
      \o "Content-Length: " \o Itoa(contentLengthValue) \o "\r\n"
      \o "\r\n"
      \o "5\r\n"
      \o "0\r\n\r\n"
      \o "0\r\n"
      \o "\r\n"
      \o smoggledBody

\* (payload, error) of Generator.GenerateCLTEPayload
GenerateCLTEPayload(g, smoggledBody) ==
  IF smoggledBody = ""
  THEN [payload |-> "", err |-> "smuggled body cannot be empty"]
  ELSE [payload |-> GenerateCLTE(buildBaseRequest(g), smoggledBody), err |-> ""]

\* the TE.CL payload: Content-Length covers the zero chunk only
\* GenerateTECL declaring the length of everything after the headers
GenerateTECL_WholeBody(baseRequest, smoggledBody) ==
  LET chunkBody == "0\r\n\r\n"
  IN  baseRequest
      \o "Content-Length: " \o Itoa(Len(chunkBody) + Len(smoggledBody)) \o "\r\n"
      \o "Transfer-Encoding: chunked\r\n"
      \o "\r\n"
      \o chunkBody
      \o smoggledBody

\* GenerateTECL of te_cl.go: the length is the literal 5
GenerateTECL_v1(baseRequest, smoggledBody) ==
  LET contentLengthValue == 5
  IN  baseRequest
      \o "Content-Length: " \o Itoa(contentLengthValue) \o "\r\n"
      \o "Transfer-Encoding: chunked\r\n"
      \o "\r\n"
      \o "0\r\n"
      \o "\r\n"
      \o smoggledBody

GenerateTECL(baseRequest, smoggledBody) ==
  LET chunkBody == "0\r\n\r\n"
  IN  baseRequest
      \o "Content-Length: " \o Itoa(Len(chunkBody)) \o "\r\n"
      \o "Transfer-Encoding: chunked\r\n"
      \o "\r\n"
      \o chunkBody
      \o smoggledBody

GenerateTECLPayload(g, smoggledBody) ==
  IF smoggledBody = ""
  THEN [payload |-> "", err |-> "smuggled body cannot be empty"]
  ELSE [payload |-> GenerateTECL(buildBaseRequest(g), smoggledBody), err |-> ""]

GenerateObfuscatedTE(baseRequest, smoggledBody, obfuscation) ==
  LET body == buildChunkedPrefix \o smoggledBody
  IN  baseRequest
      \o "Transfer-Encoding: chunked\r\n"
      \o "Transfer-Encoding: " \o obfuscation \o "\r\n"
      \o "Content-Length: " \o Itoa(Len(body)) \o "\r\n"
      \o "\r\n"
      \o body

GenerateObfuscatedTEPayload(g, smoggledBody, obfuscation) ==
  IF smoggledBody = ""
  THEN [payload |-> "", err |-> "smuggled body cannot be empty"]
  ELSE IF obfuscation = ""
  THEN [payload |-> "", err |-> "obfuscation value cannot be empty"]
  ELSE [payload |-> GenerateObfuscatedTE(buildBaseRequest(g), smoggledBody, obfuscation),
        err |-> ""]

CL_TE_GPOST_ATTACK(host, port) ==
  "POST / HTTP/1.1\r\n"
  \o "Host: " \o host \o ":" \o Itoa(port) \o "\r\n"
  \o "Connection: keep-alive\r\n"
  \o "Content-Type: application/x-www-form-urlencoded\r\n"
  \o "Content-Length: 6\r\n"
  \o "Transfer-Encoding: chunked\r\n"
  \o "\r\n"
  \o "0\r\n\r\nG"

ProbeRequestAfterPoison(host, port) ==
  "GET / HTTP/1.1\r\n"
  \o "Host: " \o host \o ":" \o Itoa(port) \o "\r\n"
  \o "Connection: close\r\n\r\n"

\* the poisoning request ending in poisonChar; the function returns no error
HTTP1_CL_TE_Poison(host, port, poisonChar) ==
  LET clValue == Itoa(Len(poisonChar) + 5)
  IN  "POST / HTTP/1.1\r\n"
      \o "Host: " \o host \o ":" \o Itoa(port) \o "\r\n"
      \o "Connection: keep-alive\r\n"
      \o "Content-Length: " \o clValue \o "\r\n"
      \o "Transfer-Encoding: chunked\r\n"
      \o "\r\n"
      \o "0\r\n\r\n"
      \o poisonChar

(***************************************************************************)
(* sender.RawSender: decoding of the bytes read from the connection.       *)
(***************************************************************************)
\* strings.Split(s, sep)
RECURSIVE Split(_, _)
Split(s, sep) ==
  LET i == Index(s, sep)
  IN  IF i = 0 THEN <<s>>
      ELSE <<SubSeq(s, 1, i - 1)>> \o Split(SubSeq(s, i + Len(sep), Len(s)), sep)

\* strings.Join(elems, sep)
RECURSIVE Join(_, _)
Join(elems, sep) ==
  IF elems = <<>> THEN ""
  ELSE IF Len(elems) = 1 THEN elems[1]
  ELSE elems[1] \o sep \o Join(Tail(elems), sep)

IsSpace(c) == c \in {" ", "\t", "\n", "\r"}

\* strings.TrimSpace(s)
RECURSIVE TrimLeft(_)
TrimLeft(s) == IF s # "" /\ IsSpace(CharAt(s, 1)) THEN TrimLeft(SubSeq(s, 2, Len(s))) ELSE s

RECURSIVE TrimRight(_)
TrimRight(s) ==
  IF s # "" /\ IsSpace(CharAt(s, Len(s))) THEN TrimRight(SubSeq(s, 1, Len(s) - 1)) ELSE s

TrimSpace(s) == TrimRight(TrimLeft(s))

\* strings.Fields(s): the maximal runs of non-space characters
RECURSIVE Fields(_)
Fields(s) ==
  LET t == TrimLeft(s)
      n == IF \E i \in 1..Len(t) : IsSpace(CharAt(t, i))
             THEN CHOOSE i \in 1..Len(t) :
                    /\ IsSpace(CharAt(t, i))
                    /\ \A j \in 1..(i - 1) : ~IsSpace(CharAt(t, j))
             ELSE Len(t) + 1
  IN  IF t = "" THEN <<>>
      ELSE <<SubSeq(t, 1, n - 1)>> \o Fields(SubSeq(t, n, Len(t)))

\* the longest prefix of s made of decimal digits
RECURSIVE DigitPrefix(_)
DigitPrefix(s) ==
  IF s # "" /\ IndexByte(Digits, CharAt(s, 1)) # 0
  THEN CharAt(s, 1) \o DigitPrefix(SubSeq(s, 2, Len(s)))
  ELSE ""

RECURSIVE DigitsValue(_)
DigitsValue(d) ==
  IF d = "" THEN 0
  ELSE 10 * DigitsValue(SubSeq(d, 1, Len(d) - 1)) + (IndexByte(Digits, CharAt(d, Len(d))) - 1)

\* fmt.Sscanf(s, "%d", &v): v is left alone unless s starts with an integer
Sscanf_d(s, v) ==
  LET signed == s # "" /\ CharAt(s, 1) \in {"+", "-"}
      d      == DigitPrefix(IF signed THEN SubSeq(s, 2, Len(s)) ELSE s)
  IN  IF d = "" THEN v
      ELSE IF signed /\ CharAt(s, 1) = "-" THEN 0 - DigitsValue(d)
      ELSE DigitsValue(d)

\* the header loop of parseHTTPResponse from line i on: the map, and the index
\* of the first empty line (0 when there is none; lines are numbered from 1)
RECURSIVE parseHeaders(_, _, _)
parseHeaders(lines, i, headers) ==
  IF i > Len(lines) THEN [headers |-> headers, headerEnd |-> 0]
  ELSE IF lines[i] = "" THEN [headers |-> headers, headerEnd |-> i]
  ELSE LET line  == lines[i]
           colon == Index(line, ":")
       IN  IF colon <= 1
           THEN parseHeaders(lines, i + 1, headers)
           ELSE LET key == TrimSpace(SubSeq(line, 1, colon - 1))
                    val == TrimSpace(SubSeq(line, colon + 1, Len(line)))
                IN  parseHeaders(lines, i + 1,
                      [k \in DOMAIN headers \cup {key} |-> IF k = key THEN val ELSE headers[k]])

parseHTTPResponse(response) ==
  IF response.Raw = "" THEN response
  ELSE LET lines  == Split(response.Raw, "\r\n")
           parts  == Fields(lines[1])
           status == IF Len(parts) >= 2 THEN Sscanf_d(parts[2], response.StatusCode)
                     ELSE response.StatusCode
           h      == parseHeaders(lines, 2, response.Headers)
       IN  [response EXCEPT
              !.StatusCode = status,
              !.Headers = h.headers,
              !.Body = IF h.headerEnd # 0 /\ h.headerEnd < Len(lines)
                         THEN Join(SubSeq(lines, h.headerEnd + 1, Len(lines)), "\r\n")
                         ELSE response.Body]

\* what SendRequest returns once the read loop has ended with readErr
\* ("EOF", "timeout", or "reset" for any other error)
receivedResponse(raw, timing, readErr) ==
  parseHTTPResponse(
    HTTPResponse(raw, 0, EmptyMap, "", timing, readErr \notin {"EOF", "timeout"}, FALSE))

\* net.Dial succeeded: one more open connection
dialConn(open) == open + 1

\* defer conn.Close() with the close left out
closeConn_Leak(open) == open

\* defer conn.Close()
closeConn(open) == open - 1

(***************************************************************************)
(* detector.Detector.GenerateReport.  A *ScanResult is named by its index  *)
(* in the results list.                                                    *)
(***************************************************************************)
RECURSIVE reportLoop(_, _, _, _)
reportLoop(results, i, report, highest) ==
  IF i > Len(results) THEN report
  ELSE LET result == results[i]
       IN  IF result.Suspicious
           THEN LET counted == [report EXCEPT !.Vulnerable = @ + 1,
                                              !.Suspicious = Append(@, i)]
                IN  IF F64Gt(result.Confidence, highest)
                    THEN reportLoop(results, i + 1,
                           [counted EXCEPT !.HighestConfidence = result.Confidence,
                                           !.MostLikelyTechnique = result.Technique],
                           result.Confidence)
                    ELSE reportLoop(results, i + 1, counted, highest)
           ELSE reportLoop(results, i + 1,
                  [report EXCEPT !.NonSuspicious = Append(@, i)], highest)

GenerateReport(target, results) ==
  reportLoop(results, 1,
    [Target |-> target, TotalTests |-> Len(results), Vulnerable |-> 0,
     Suspicious |-> <<>>, NonSuspicious |-> <<>>,
     HighestConfidence |-> F64Zero, MostLikelyTechnique |-> ""],
    F64Zero)

(***************************************************************************)
(* scanner.Scanner.  The operators below take and return the scanner with  *)
(* its sender as a record s; errors are the chain of their messages, nil   *)
(* is <<>>; a nil *DetectionReport is <<>>.                                *)
(***************************************************************************)
TestMethods ==
  {"TestCLTE", "TestTECL", "TestMixedTE", "TestObfuscatedTE", "TestCLTE_GPOST"}

\* Run with two of its steps exchanged
nextMethod_Swapped(method) ==
  CASE method = "CaptureBaseline"  -> "TestTECL"
    [] method = "TestTECL"         -> "TestCLTE"
    [] method = "TestCLTE"         -> "TestMixedTE"
    [] method = "TestMixedTE"      -> "TestObfuscatedTE"
    [] method = "TestObfuscatedTE" -> "TestCLTE_GPOST"
    [] OTHER                       -> ""

\* the method Run calls once `method` has returned nil ("" after the last)
nextMethod(method) ==
  CASE method = "CaptureBaseline"  -> "TestCLTE"
    [] method = "TestCLTE"         -> "TestTECL"
    [] method = "TestTECL"         -> "TestMixedTE"
    [] method = "TestMixedTE"      -> "TestObfuscatedTE"
    [] method = "TestObfuscatedTE" -> "TestCLTE_GPOST"
    [] OTHER                       -> ""

\* the first request a method sends, and the method a request belongs to
firstRequest(method) ==
  CASE method = "CaptureBaseline"  -> "baseline"
    [] method = "TestCLTE"         -> "CL.TE"
    [] method = "TestTECL"         -> "TE.CL"
    [] method = "TestMixedTE"      -> "Mixed-TE"
    [] method = "TestObfuscatedTE" -> "Obfuscated-TE"
    [] method = "TestCLTE_GPOST"   -> "smuggle"

methodOf(req) ==
  CASE req = "baseline"      -> "CaptureBaseline"
    [] req = "CL.TE"         -> "TestCLTE"
    [] req = "TE.CL"         -> "TestTECL"
    [] req = "Mixed-TE"      -> "TestMixedTE"
    [] req = "Obfuscated-TE" -> "TestObfuscatedTE"
    [] req \in {"smuggle", "probe"} -> "TestCLTE_GPOST"

testGenerator(target, port) ==
  AddHeader(SetPath(NewGenerator(target, port), "/"), "Connection", "close")

\* the payload each request is built with, and the builder's error
buildPayload(target, port, req) ==
  CASE req = "baseline" ->
         [payload |-> GenerateBaseline(AddHeader(NewGenerator(target, port), "Connection", "close")),
          err |-> ""]
    [] req = "CL.TE" ->
         GenerateCLTEPayload(testGenerator(target, port),
           "GET /admin HTTP/1.1\r\nHost: " \o target \o "\r\n\r\n")
    [] req = "TE.CL" ->
         GenerateTECLPayload(testGenerator(target, port),
           "GET /api HTTP/1.1\r\nHost: " \o target \o "\r\n\r\n")
    [] req = "Mixed-TE" ->
         [payload |-> "GET / HTTP/1.1\r\nHost: " \o target \o ":" \o Itoa(port)
                      \o "\r\nConnection: close\r\n"
                      \o "Transfer-Encoding: identity\r\n"
                      \o "Transfer-Encoding: chunked\r\nContent-Length: 5\r\n\r\n"
                      \o "0\r\n\r\nGET /secret HTTP/1.1\r\nHost: " \o target \o "\r\n\r\n",
          err |-> ""]
    [] req = "Obfuscated-TE" ->
         GenerateObfuscatedTEPayload(testGenerator(target, port),
           "POST / HTTP/1.1\r\nHost: " \o target
             \o "\r\nContent-Type: application/x-www-form-urlencoded\r\nContent-Length: 15\r\n\r\nx=1",
           "cow")
    [] req = "smuggle" -> [payload |-> CL_TE_GPOST_ATTACK(target, port), err |-> ""]
    [] req = "probe"   -> [payload |-> ProbeRequestAfterPoison(target, port), err |-> ""]

errNoBaseline == <<"baseline not captured; call CaptureBaseline first">>

\* fmt.Errorf("...: %w", err) around a builder error
buildErrorWrap(req) ==
  CASE req = "CL.TE"         -> <<"CL.TE payload generation failed">>
    [] req = "TE.CL"         -> <<"TE.CL payload generation failed">>
    [] req = "Obfuscated-TE" -> <<"Obfuscated-TE payload generation failed">>
    [] OTHER                 -> <<>>

\* fmt.Errorf("...: %w", err) around a SendRequest error
sendErrorWrap(req) ==
  CASE req = "baseline"      -> <<"baseline capture failed", "failed to capture baseline">>
    [] req = "CL.TE"         -> <<"CL.TE test send failed">>
    [] req = "TE.CL"         -> <<"TE.CL test send failed">>
    [] req = "Mixed-TE"      -> <<"Mixed-TE test send failed">>
    [] req = "Obfuscated-TE" -> <<"Obfuscated-TE test send failed">>
    [] req = "smuggle"       -> <<"smuggling payload send failed">>
    [] req = "probe"         -> <<"probe request send failed">>

Idle == [op |-> "", req |-> "", at |-> "idle", base |-> 0]

\* the guard every Test* method starts with, left out
baselineMissing_Never(s, method) == FALSE

\* if sc.baselineResponse == nil { return error }
baselineMissing(s, method) == method \in TestMethods /\ s.baselineResponse = Nil

\* Run going on after a step that returned an error
runAborts_Never(err) == FALSE

\* if err := sc.Step(); err != nil { return err }
runAborts(err) == err # <<>>

\* sc.report = sc.detector.GenerateReport(sc.target, sc.results...)
generateFinalReport(s) == [s EXCEPT !.report = GenerateReport(s.target, s.results)]

\* Scanner.GetMostLikelyTechnique
GetMostLikelyTechnique(report) ==
  IF report = <<>> \/ report.Vulnerable = 0 THEN "None" ELSE report.MostLikelyTechnique

\* the call the caller made returns err
callReturns(s, err) ==
  [s EXCEPT !.rets = Append(@, [op |-> s.pc.op, err |-> err, base |-> s.pc.base]),
            !.pc = Idle]

RECURSIVE enter(_, _), returned(_, _, _)

\* `method` starts: its guard, its payload, then its first SendRequest
enter(s, method) ==
  IF baselineMissing(s, method) THEN returned(s, method, errNoBaseline)
  ELSE LET req   == firstRequest(method)
           built == buildPayload(s.target, s.port, req)
       IN  IF built.err # ""
           THEN returned(s, method, buildErrorWrap(req) \o <<built.err>>)
           ELSE [s EXCEPT !.pc.req = req, !.pc.at = "dial"]

\* `method` returns err to its caller: the caller of the scanner, or Run
returned(s, method, err) ==
  IF s.pc.op # "Run" THEN callReturns(s, err)
  ELSE IF runAborts(err) THEN callReturns(s, err)
  ELSE IF nextMethod(method) # "" THEN enter(s, nextMethod(method))
  ELSE callReturns(generateFinalReport(s), <<>>)

\* a response built in storage that is still referred to
alloc_Reuse(heap) ==
  IF DOMAIN heap = {} THEN 1 ELSE CHOOSE a \in DOMAIN heap : \A b \in DOMAIN heap : a <= b

\* response := &models.HTTPResponse{...}: a fresh address
alloc(heap) == CHOOSE a \in 1..(Cardinality(DOMAIN heap) + 1) : a \notin DOMAIN heap

\* the responses the scanner still refers to (the others are garbage)
live(s) ==
  ({s.baselineResponse}
     \cup {s.results[i].BaselineResponse : i \in DOMAIN s.results}
     \cup {s.results[i].TestResponse : i \in DOMAIN s.results}) \ {Nil}

collect(s) == [s EXCEPT !.heap = [a \in live(s) |-> s.heap[a]]]

\* ai.Provider.AnalyzeResponses of the provider the scanner was given
AnalyzeResponses(provider, testType) ==
  CASE provider = "down" ->
         [err |-> TRUE, aiResult |-> <<>>]
    [] provider = "alarmist" ->
         [err |-> FALSE, aiResult |-> <<[Confidence |-> F64(90), IsVulnerable |-> TRUE]>>]
    [] provider = "skeptic" ->
         [err |-> FALSE, aiResult |-> <<[Confidence |-> F64(10), IsVulnerable |-> FALSE]>>]
    [] provider = "unsure" ->
         [err |-> FALSE, aiResult |-> <<[Confidence |-> F64Zero, IsVulnerable |-> TRUE]>>]
    [] OTHER ->
         [err |-> FALSE, aiResult |-> <<>>]

\* ScanResult.GetConfidence
GetConfidence(sr) ==
  IF F64Gt(sr.Confidence, F64Zero) THEN sr.Confidence ELSE sr.ConfidenceScore

\* runAIAnalysis taking the assessment over as it is
runAIAnalysis_Overwrite(provider, testType, result) ==
  LET r == AnalyzeResponses(provider, testType)
  IN  IF r.err THEN result
      ELSE IF r.aiResult # <<>> /\ F64Gt(r.aiResult[1].Confidence, F64Zero)
      THEN LET ai == r.aiResult[1]
           IN  [result EXCEPT !.ConfidenceScore = ai.Confidence,
                              !.Suspicious = ai.IsVulnerable]
      ELSE result

\* runAIAnalysis withdrawing the verdict when the provider fails
runAIAnalysis_ErrorClears(provider, testType, result) ==
  LET r == AnalyzeResponses(provider, testType)
  IN  IF r.err THEN [result EXCEPT !.Suspicious = FALSE]
      ELSE IF r.aiResult # <<>> /\ F64Gt(r.aiResult[1].Confidence, F64Zero)
      THEN LET ai == r.aiResult[1]
           IN  [result EXCEPT
                  !.ConfidenceScore = IF F64Gt(ai.Confidence, @) THEN ai.Confidence ELSE @,
                  !.Suspicious = IF ai.IsVulnerable /\ ~@ THEN TRUE ELSE @]
      ELSE result

runAIAnalysis(provider, testType, result) ==
  LET r == AnalyzeResponses(provider, testType)
  IN  IF r.err THEN result
      ELSE IF r.aiResult # <<>> /\ F64Gt(r.aiResult[1].Confidence, F64Zero)
      THEN LET ai == r.aiResult[1]
           IN  [result EXCEPT
                  !.ConfidenceScore = IF F64Gt(ai.Confidence, @) THEN ai.Confidence ELSE @,
                  !.Suspicious = IF ai.IsVulnerable /\ ~@ THEN TRUE ELSE @]
      ELSE result

\* the new verdict put in front of the earlier ones
appendResult_Prepend(s, testType, result) ==
  LET final == IF s.aiProvider # "none" THEN runAIAnalysis(s.aiProvider, testType, result)
               ELSE result
  IN  [s EXCEPT !.results = <<final>> \o @]

\* if sc.aiProvider != nil { sc.runAIAnalysis(...) }; sc.results = append(sc.results, result)
appendResult(s, testType, result) ==
  LET final == IF s.aiProvider # "none" THEN runAIAnalysis(s.aiProvider, testType, result)
               ELSE result
  IN  [s EXCEPT !.results = Append(@, final)]

\* the poisoning verdict decided on the indicator tokens alone
poisoningVerdict_TokensOnly(target, heap, b, t) ==
  LET resp2  == heap[t]
      upper  == ToUpper(resp2.Raw)
      gpost  == Contains(upper, "GPOST")
      unrec  == Contains(upper, "UNRECOGNIZED METHOD")
  IN  [Target |-> target, Technique |-> "CL.TE-GPOST",
       Suspicious |-> gpost \/ unrec,
       Reason |-> IF gpost THEN [kind |-> "Probe response contains 'GPOST' method"]
                  ELSE IF unrec THEN [kind |-> "Probe response indicates unrecognized method"]
                  ELSE [kind |-> ""],
       Confidence |-> F64Zero, ConfidenceScore |-> F64Zero,
       ResponseTimeDiff |-> resp2.TimingMS - heap[b].TimingMS,
       BaselineResponse |-> b, TestResponse |-> t]

\* the poisoning verdict decided on the probe's status code alone
poisoningVerdict_StatusOnly(target, heap, b, t) ==
  LET resp2  == heap[t]
      status == /\ resp2.StatusCode \in {405, 400}
                /\ resp2.StatusCode # heap[b].StatusCode
  IN  [Target |-> target, Technique |-> "CL.TE-GPOST",
       Suspicious |-> status,
       Reason |-> IF status THEN [kind |-> "Probe returned a changed status"] ELSE [kind |-> ""],
       Confidence |-> F64Zero, ConfidenceScore |-> F64Zero,
       ResponseTimeDiff |-> resp2.TimingMS - heap[b].TimingMS,
       BaselineResponse |-> b, TestResponse |-> t]

\* the verdict TestCLTE_GPOST builds from the probe's response
poisoningVerdict(target, heap, b, t) ==
  LET resp2  == heap[t]
      upper  == ToUpper(resp2.Raw)
      gpost  == Contains(upper, "GPOST")
      unrec  == Contains(upper, "UNRECOGNIZED METHOD")
      status == /\ resp2.StatusCode \in {405, 400}
                /\ resp2.StatusCode # heap[b].StatusCode
  IN  [Target |-> target, Technique |-> "CL.TE-GPOST",
       Suspicious |-> gpost \/ unrec \/ status,
       Reason |-> IF gpost THEN [kind |-> "Probe response contains 'GPOST' method"]
                  ELSE IF unrec THEN [kind |-> "Probe response indicates unrecognized method"]
                  ELSE IF status THEN [kind |-> "Probe returned a changed status"]
                  ELSE [kind |-> ""],
       Confidence |-> F64Zero, ConfidenceScore |-> F64Zero,
       ResponseTimeDiff |-> resp2.TimingMS - heap[b].TimingMS,
       BaselineResponse |-> b, TestResponse |-> t]

\* the analyzer each technique's test calls
analyze(thr, target, req, c) ==
  CASE req = "CL.TE"         -> AnalyzeCLTE(thr, target, c)
    [] req = "TE.CL"         -> AnalyzeTECL(thr, target, c)
    [] req = "Mixed-TE"      -> AnalyzeMixedTE(thr, target, c)
    [] req = "Obfuscated-TE" -> AnalyzeObfuscatedTE(thr, target, c)

\* SendRequest returned (response, error): every state the scanner can be in
\* when it returns to its caller or starts its next SendRequest
sendFailed(s, cause) ==
  LET req == s.pc.req
  IN  returned(s, methodOf(req), sendErrorWrap(req) \o <<cause>>)

\* SendRequest returned (response, nil)
sendDone(s, response) ==
  LET req == s.pc.req
      p   == alloc(s.heap)
      s1  == [s EXCEPT !.heap = [a \in DOMAIN s.heap \cup {p} |->
                                   IF a = p THEN response ELSE s.heap[a]]]
  IN  CASE req = "baseline" ->
             { returned(collect([s1 EXCEPT !.baselineResponse = p]), "CaptureBaseline", <<>>) }
        [] req = "smuggle" ->
             { [s EXCEPT !.pc.req = "probe", !.pc.at = "dial"] }
        [] req = "probe" ->
             { returned(appendResult(s1, "CL.TE-GPOST",
                          poisoningVerdict(s.target, s1.heap, s.baselineResponse, p)),
                        "TestCLTE_GPOST", <<>>) }
        [] OTHER ->
             { returned(appendResult(s1, req, analyze(s.threshold, s.target, req, c)),
                        methodOf(req), <<>>) :
                 c \in CompareResponses(s1.heap, s.baselineResponse, p) }

(***************************************************************************)
(* State.                                                                  *)
(***************************************************************************)
VARIABLES
  heap,        \* the HTTPResponse objects reachable from the program state
  threshold,   \* Detector.confidenceThreshold
  comparison,  \* the BaselineComparison under analysis (<<>> before CompareResponses)
  verdicts,    \* technique -> ScanResult returned by its analyzer
  dpc,         \* position of the detector harness
  gen,         \* a payload.Generator (<<>> when none is in use)
  built,       \* what the last payload builder call returned (<<>> before it)
  baselineResponse,  \* Scanner.baselineResponse (an address, Nil before capture)
  results,     \* Scanner.results
  report,      \* Scanner.report (<<>> while nil)
  aiProvider,  \* Scanner.aiProvider ("none" while nil)
  pc,          \* the call in progress: the method called, the request being sent,
               \* the position in SendRequest, len(results) when the call began
  netlog,      \* what the sender did on the network during the current or last call
  open,        \* number of connections the sender holds open
  rets,        \* what each finished call returned, in call order
  peer         \* a second Scanner, for another target (<<>> when there is none)

detVars == <<comparison, verdicts, dpc>>
payVars == <<gen, built>>
scanVars == <<baselineResponse, results, report, aiProvider, pc, netlog, open, rets, peer>>
vars == <<heap, threshold, detVars, payVars, scanVars>>

DetectIdle == comparison = <<>> /\ verdicts = EmptyMap /\ dpc = "off"
PayloadIdle == gen = <<>> /\ built = <<>>
ScannerIdle ==
  /\ baselineResponse = Nil
  /\ results = <<>>
  /\ report = <<>>
  /\ aiProvider = "none"
  /\ pc = Idle
  /\ netlog = <<>>
  /\ open = 0
  /\ rets = <<>>
  /\ peer = <<>>

Target == "h"

(***************************************************************************)
(* Detector specification: CompareResponses and the four analyzers applied *)
(* to bounded sets of decoded responses and requested thresholds.          *)
(***************************************************************************)
Body2000  == Repeat("x", 2000)
Body2000b == Repeat("y", 2000)
Body1800  == Repeat("x", 1800)
Body1700  == Repeat("x", 1700)

HdrTE   == [k \in {"Transfer-Encoding"} |-> "chunked"]
HdrCL   == [k \in {"content-length"} |-> "5"]
HdrDup  == [k \in {"Transfer-Encoding", "transfer-encoding"} |->
              IF k = "Transfer-Encoding" THEN "chunked" ELSE "cow"]

DetectBaselines ==
  { HTTPResponse("", 200, HdrTE, Body2000, 50, FALSE, FALSE),
    HTTPResponse("", 400, HdrDup, "", 0, TRUE, FALSE) }

DetectTests ==
  DetectBaselines \cup
  { HTTPResponse("", st, hd, bd, tm, cl, FALSE) :
      st \in {200, 400, 503}, hd \in {HdrTE, HdrCL}, bd \in {Body2000, Body2000b, Body1800, Body1700},
      tm \in {10, 20, 50, 1051}, cl \in BOOLEAN }

\* thresholds a caller may request, in hundredths
RequestedThresholds == {-50, 0, 40, 90, 150}

InitDetect ==
  /\ \E b \in DetectBaselines, t \in DetectTests : heap = <<b, t>>
  /\ threshold = F64(DefaultThreshold)
  /\ comparison = <<>>
  /\ verdicts = EmptyMap
  /\ dpc = "configure"
  /\ PayloadIdle
  /\ ScannerIdle

D_SetConfidenceThreshold ==
  /\ dpc = "configure"
  /\ \E t \in RequestedThresholds : threshold' = SetConfidenceThreshold(t)
  /\ UNCHANGED <<scanVars, heap, detVars, payVars>>

D_CompareResponses ==
  /\ dpc = "configure"
  /\ \E c \in CompareResponses(heap, 1, 2) : comparison' = c
  /\ dpc' = "analyze"
  /\ UNCHANGED <<scanVars, heap, threshold, verdicts, payVars>>

record(technique, result) ==
  /\ technique \notin DOMAIN verdicts
  /\ verdicts' = [k \in DOMAIN verdicts \cup {technique} |->
                    IF k = technique THEN result ELSE verdicts[k]]
  /\ UNCHANGED <<scanVars, heap, threshold, comparison, dpc, payVars>>

D_AnalyzeCLTE ==
  /\ dpc = "analyze"
  /\ record("CL.TE", AnalyzeCLTE(threshold, Target, comparison))

D_AnalyzeTECL ==
  /\ dpc = "analyze"
  /\ record("TE.CL", AnalyzeTECL(threshold, Target, comparison))

D_AnalyzeMixedTE ==
  /\ dpc = "analyze"
  /\ record("Mixed-TE", AnalyzeMixedTE(threshold, Target, comparison))

D_AnalyzeObfuscatedTE ==
  /\ dpc = "analyze"
  /\ record("Obfuscated-TE", AnalyzeObfuscatedTE(threshold, Target, comparison))

NextDetect ==
  \/ D_SetConfidenceThreshold
  \/ D_CompareResponses
  \/ D_AnalyzeCLTE
  \/ D_AnalyzeTECL
  \/ D_AnalyzeMixedTE
  \/ D_AnalyzeObfuscatedTE

SpecDetect == InitDetect /\ [][NextDetect]_vars

(***************************************************************************)
(* Payload specification: a Generator is configured and a builder called   *)
(* on bounded sets of hosts, ports, paths, headers and smuggled bodies.    *)
(***************************************************************************)
Hosts == {"h", "example.com"}
Ports == {80, 8443}
Paths == {"/", "/api"}
ExtraHeaders == { <<"Connection", "close">>, <<"Accept", "*/*">> }
SmuggledBodies == { "", "G", "GET /admin HTTP/1.1\r\nHost: h\r\n\r\n" }

InitPayload ==
  /\ \E h \in Hosts, p \in Ports : gen = NewGenerator(h, p)
  /\ built = <<>>
  /\ heap = <<>>
  /\ threshold = F64(DefaultThreshold)
  /\ DetectIdle
  /\ ScannerIdle

P_SetPath ==
  /\ built = <<>>
  /\ \E path \in Paths : gen' = SetPath(gen, path)
  /\ UNCHANGED <<scanVars, heap, threshold, detVars, built>>

P_AddHeader ==
  /\ built = <<>>
  /\ \E kv \in ExtraHeaders : gen' = AddHeader(gen, kv[1], kv[2])
  /\ UNCHANGED <<scanVars, heap, threshold, detVars, built>>

P_GenerateCLTEPayload ==
  /\ built = <<>>
  /\ \E b \in SmuggledBodies :
       LET r == GenerateCLTEPayload(gen, b)
       IN  built' = [technique |-> "CL.TE", smuggled |-> b, payload |-> r.payload, err |-> r.err]
  /\ UNCHANGED <<scanVars, heap, threshold, detVars, gen>>

\* the earlier revision's builder called on the Generator's base request
P_GenerateCLTE_v1 ==
  /\ built = <<>>
  /\ \E b \in SmuggledBodies \ {""} :
       built' = [technique |-> "CL.TE", smuggled |-> b,
                 payload |-> GenerateCLTE_v1(buildBaseRequest(gen), b), err |-> ""]
  /\ UNCHANGED <<scanVars, heap, threshold, detVars, gen>>

Obfuscations == {"", "cow"}

P_GenerateTECLPayload ==
  /\ built = <<>>
  /\ \E b \in SmuggledBodies :
       LET r == GenerateTECLPayload(gen, b)
       IN  built' = [technique |-> "TE.CL", smuggled |-> b, payload |-> r.payload, err |-> r.err]
  /\ UNCHANGED <<scanVars, heap, threshold, detVars, gen>>

\* te_cl.go's builder called on the Generator's base request
P_GenerateTECL_v1 ==
  /\ built = <<>>
  /\ \E b \in SmuggledBodies \ {""} :
       built' = [technique |-> "TE.CL", smuggled |-> b,
                 payload |-> GenerateTECL_v1(buildBaseRequest(gen), b), err |-> ""]
  /\ UNCHANGED <<scanVars, heap, threshold, detVars, gen>>

P_GenerateObfuscatedTEPayload ==
  /\ built = <<>>
  /\ \E b \in SmuggledBodies, o \in Obfuscations :
       LET r == GenerateObfuscatedTEPayload(gen, b, o)
       IN  built' = [technique |-> "Obfuscated-TE", smuggled |-> b, obfuscation |-> o,
                     payload |-> r.payload, err |-> r.err]
  /\ UNCHANGED <<scanVars, heap, threshold, detVars, gen>>

\* the poisoning request built for the Generator's host and port
P_HTTP1_CL_TE_Poison ==
  /\ built = <<>>
  /\ \E b \in SmuggledBodies :
       built' = [technique |-> "CL.TE-Poison", smuggled |-> b,
                 payload |-> HTTP1_CL_TE_Poison(gen.host, gen.port, b), err |-> ""]
  /\ UNCHANGED <<scanVars, heap, threshold, detVars, gen>>

NextPayload ==
  \/ P_SetPath
  \/ P_AddHeader
  \/ P_GenerateCLTEPayload
  \/ P_GenerateCLTE_v1
  \/ P_GenerateTECLPayload
  \/ P_GenerateTECL_v1
  \/ P_GenerateObfuscatedTEPayload
  \/ P_HTTP1_CL_TE_Poison

SpecPayload == InitPayload /\ [][NextPayload]_vars

(***************************************************************************)
(* Scanner specification: a caller drives one Scanner through its public   *)
(* methods; the network decides how each SendRequest goes.                 *)
(***************************************************************************)
Port == 80

\* calls the caller makes; a call that appends verdicts starts only on a
\* scanner holding fewer than MaxResults verdicts
MaxCalls == 2
MaxResults == 2

\* what a server may answer: the bytes read, the round trip in ms, and how
\* the read loop ended
Replies ==
  { [raw |-> "HTTP/1.1 200 OK\r\nServer: a\r\n\r\nhello", timing |-> 50, readErr |-> "EOF"],
    [raw |-> "HTTP/1.1 400 Bad Request\r\nServer: a\r\n\r\nUnrecognized method GPOST",
     timing |-> 10, readErr |-> "reset"],
    [raw |-> "HTTP/1.1 405 Method Not Allowed\r\nAllow: GET",
     timing |-> 10000, readErr |-> "timeout"] }

\* the responses SendRequest can return, decoded from the replies
Responses == { receivedResponse(r.raw, r.timing, r.readErr) : r \in Replies }

AIProviders == {"none", "alarmist"}

Init ==
  /\ heap = <<>>
  /\ threshold = F64(DefaultThreshold)
  /\ baselineResponse = Nil
  /\ results = <<>>
  /\ report = <<>>
  /\ aiProvider \in AIProviders
  /\ pc = Idle
  /\ netlog = <<>>
  /\ open = 0
  /\ rets = <<>>
  /\ peer = <<>>
  /\ DetectIdle
  /\ PayloadIdle

\* the scanner and its sender as one record
scanner ==
  [target |-> Target, port |-> Port, heap |-> heap, threshold |-> threshold,
   baselineResponse |-> baselineResponse, results |-> results, report |-> report,
   aiProvider |-> aiProvider, pc |-> pc, netlog |-> netlog, open |-> open, rets |-> rets]

becomes(s) ==
  /\ heap' = s.heap
  /\ baselineResponse' = s.baselineResponse
  /\ results' = s.results
  /\ report' = s.report
  /\ pc' = s.pc
  /\ netlog' = s.netlog
  /\ open' = s.open
  /\ rets' = s.rets
  /\ UNCHANGED <<threshold, aiProvider, peer, detVars, payVars>>

\* the caller calls a public method of the idle scanner
call(method) ==
  /\ Len(rets) < MaxCalls
  /\ method # "CaptureBaseline" => Len(results) < MaxResults
  /\ LET s == [scanner EXCEPT !.pc = [op |-> method, req |-> "", at |-> "call",
                                      base |-> Len(results)],
                              !.netlog = <<>>]
     IN  becomes(enter(s, IF method = "Run" THEN "CaptureBaseline" ELSE method))

CaptureBaseline ==
  /\ pc.at = "idle"
  /\ call("CaptureBaseline")

TestCLTE ==
  /\ pc.at = "idle"
  /\ call("TestCLTE")

TestTECL ==
  /\ pc.at = "idle"
  /\ call("TestTECL")

TestMixedTE ==
  /\ pc.at = "idle"
  /\ call("TestMixedTE")

TestObfuscatedTE ==
  /\ pc.at = "idle"
  /\ call("TestObfuscatedTE")

TestCLTE_GPOST ==
  /\ pc.at = "idle"
  /\ call("TestCLTE_GPOST")

Run ==
  /\ pc.at = "idle"
  /\ call("Run")

event(ev) == [ev |-> ev, req |-> pc.req]

\* SendRequest dialing again after a failed connect
SendRequest_Dial_Retry ==
  /\ pc.at = "dial"
  /\ \/ becomes([scanner EXCEPT !.open = dialConn(@),
                                !.netlog = Append(@, event("dial")),
                                !.pc.at = "write"])
     \/ becomes([scanner EXCEPT !.netlog = Append(@, event("dial failed"))])

\* SendRequest: net.DialTimeout / tls.DialWithDialer
SendRequest_Dial ==
  /\ pc.at = "dial"
  /\ \/ becomes([scanner EXCEPT !.open = dialConn(@),
                                !.netlog = Append(@, event("dial")),
                                !.pc.at = "write"])
     \/ becomes(sendFailed([scanner EXCEPT !.netlog = Append(@, event("dial failed"))],
                           "failed to connect"))

\* SendRequest: conn.Write, and the deferred Close when it fails
SendRequest_Write ==
  /\ pc.at = "write"
  /\ \/ becomes([scanner EXCEPT !.netlog = Append(@, event("write")),
                                !.pc.at = "read"])
     \/ becomes(sendFailed([scanner EXCEPT
                              !.netlog = @ \o <<event("write failed"), event("close")>>,
                              !.open = closeConn(@)],
                           "failed to send request"))

\* SendRequest returning the read error when the deadline ended the read
SendRequest_Read_TimeoutFails ==
  /\ pc.at = "read"
  /\ \E r \in Replies :
       LET s0 == [scanner EXCEPT !.netlog = @ \o <<event("read"), event("close")>>,
                                 !.open = closeConn(@)]
       IN  IF r.readErr = "timeout"
           THEN becomes(sendFailed(s0, "failed to read response"))
           ELSE \E s \in sendDone(s0, receivedResponse(r.raw, r.timing, r.readErr)) :
                  becomes(s)

\* SendRequest: readFullResponse until the read fails, parseHTTPResponse, the
\* deferred Close; then the calling method up to its return or next SendRequest
SendRequest_Read ==
  /\ pc.at = "read"
  /\ \E response \in Responses :
       \E s \in sendDone([scanner EXCEPT
                            !.netlog = @ \o <<event("read"), event("close")>>,
                            !.open = closeConn(@)],
                         response) :
         becomes(s)

Next ==
  \/ CaptureBaseline
  \/ TestCLTE
  \/ TestTECL
  \/ TestMixedTE
  \/ TestObfuscatedTE
  \/ TestCLTE_GPOST
  \/ Run
  \/ SendRequest_Dial
  \/ SendRequest_Write
  \/ SendRequest_Read

Spec == Init /\ [][Next]_vars

\* the scanner after SetAIProvider with a provider whose every call fails
\* (service unreachable, or output that does not parse)
InitOutage ==
  /\ heap = <<>>
  /\ threshold = F64(DefaultThreshold)
  /\ baselineResponse = Nil
  /\ results = <<>>
  /\ report = <<>>
  /\ aiProvider = "down"
  /\ pc = Idle
  /\ netlog = <<>>
  /\ open = 0
  /\ rets = <<>>
  /\ peer = <<>>
  /\ DetectIdle
  /\ PayloadIdle

SpecOutage == InitOutage /\ [][Next]_vars

(***************************************************************************)
(* Pair specification: two Scanners built by NewScanner for two targets,   *)
(* each driven through one Run by its own thread; the steps of the two     *)
(* interleave freely.  The first scanner is held in the scanner variables, *)
(* the second in peer.                                                     *)
(***************************************************************************)
PeerTarget == "g"
PeerPort == 8080

\* what the two servers answer
PairResponses ==
  { receivedResponse(r.raw, r.timing, r.readErr) : r \in { q \in Replies : q.readErr # "timeout" } }
PeerResponses ==
  { receivedResponse(r.raw, r.timing, r.readErr) : r \in { q \in Replies : q.readErr = "timeout" } }

\* NewScanner(target, port): its own sender, detector and empty results
NewScanner(target, port) ==
  [target |-> target, port |-> port, heap |-> <<>>, threshold |-> F64(DefaultThreshold),
   baselineResponse |-> Nil, results |-> <<>>, report |-> <<>>,
   aiProvider |-> "none", pc |-> Idle, netlog |-> <<>>, open |-> 0, rets |-> <<>>]

\* sc.Run() called on the idle scanner s
runCalled(s) ==
  enter([s EXCEPT !.pc = [op |-> "Run", req |-> "", at |-> "call", base |-> Len(s.results)],
                  !.netlog = <<>>],
        "CaptureBaseline")

eventOf(s, ev) == [ev |-> ev, req |-> s.pc.req]

\* the outcomes of the connect, the write and the read of s's SendRequest
dialed(s) ==
  { [s EXCEPT !.open = dialConn(@), !.netlog = Append(@, eventOf(s, "dial")),
              !.pc.at = "write"],
    sendFailed([s EXCEPT !.netlog = Append(@, eventOf(s, "dial failed"))],
               "failed to connect") }

written(s) ==
  { [s EXCEPT !.netlog = Append(@, eventOf(s, "write")), !.pc.at = "read"],
    sendFailed([s EXCEPT !.netlog = @ \o <<eventOf(s, "write failed"), eventOf(s, "close")>>,
                         !.open = closeConn(@)],
               "failed to send request") }

readFrom(s, responses) ==
  UNION { sendDone([s EXCEPT !.netlog = @ \o <<eventOf(s, "read"), eventOf(s, "close")>>,
                             !.open = closeConn(@)],
                   response) : response \in responses }

InitPair ==
  /\ heap = <<>>
  /\ threshold = F64(DefaultThreshold)
  /\ baselineResponse = Nil
  /\ results = <<>>
  /\ report = <<>>
  /\ aiProvider = "none"
  /\ pc = Idle
  /\ netlog = <<>>
  /\ open = 0
  /\ rets = <<>>
  /\ peer = NewScanner(PeerTarget, PeerPort)
  /\ DetectIdle
  /\ PayloadIdle

peerBecomes(s) ==
  /\ peer' = s
  /\ UNCHANGED <<heap, threshold, detVars, payVars,
                 baselineResponse, results, report, aiProvider, pc, netlog, open, rets>>

Pair_Run ==
  /\ pc.at = "idle" /\ rets = <<>>
  /\ becomes(runCalled(scanner))

Pair_Dial ==
  /\ pc.at = "dial"
  /\ \E s \in dialed(scanner) : becomes(s)

Pair_Write ==
  /\ pc.at = "write"
  /\ \E s \in written(scanner) : becomes(s)

Pair_Read ==
  /\ pc.at = "read"
  /\ \E s \in readFrom(scanner, PairResponses) : becomes(s)

Peer_Run ==
  /\ peer.pc.at = "idle" /\ peer.rets = <<>>
  /\ peerBecomes(runCalled(peer))

\* the two scanners built on one RawSender
Peer_Dial_SharedSender ==
  /\ peer.pc.at = "dial"
  /\ \E s \in dialed(peer) :
       /\ peer' = s
       /\ open' = s.open
       /\ UNCHANGED <<heap, threshold, detVars, payVars,
                      baselineResponse, results, report, aiProvider, pc, netlog, rets>>

Peer_Dial ==
  /\ peer.pc.at = "dial"
  /\ \E s \in dialed(peer) : peerBecomes(s)

Peer_Write ==
  /\ peer.pc.at = "write"
  /\ \E s \in written(peer) : peerBecomes(s)

Peer_Read ==
  /\ peer.pc.at = "read"
  /\ \E s \in readFrom(peer, PeerResponses) : peerBecomes(s)

NextPair ==
  \/ Pair_Run
  \/ Pair_Dial
  \/ Pair_Write
  \/ Pair_Read
  \/ Peer_Run
  \/ Peer_Dial
  \/ Peer_Write
  \/ Peer_Read

SpecPair == InitPair /\ [][NextPair]_vars

(***************************************************************************)
(* Decoder specification: the sender decodes one raw byte sequence after   *)
(* another, each into a fresh HTTPResponse; heap holds the decoded         *)
(* responses in the order they were produced.                              *)
(***************************************************************************)
MaxDecodes == 3

DupRaw == "HTTP/1.1 200 OK\r\nX-Id: 1\r\nServer: a\r\nX-Id: 2\r\n\r\nhello\r\n\r\nworld"

RawInputs ==
  { "",
    DupRaw,
    "HTTP/1.1 404 Not Found\r\nServer:  b \r\nx-id: 3\r\n\r\n",
    "HTTP/1.1 abc\r\nNoColon\r\n: v\r\nA:\r\n",
    "junk" }

\* response := &models.HTTPResponse{Headers: make(map[string]string)} with
\* the bytes read, before parseHTTPResponse
freshResponse(raw) == HTTPResponse(raw, 0, EmptyMap, "", 0, FALSE, FALSE)

decodeIdle ==
  <<threshold, detVars, payVars, scanVars>>

InitDecode ==
  /\ heap = <<>>
  /\ threshold = F64(DefaultThreshold)
  /\ DetectIdle
  /\ PayloadIdle
  /\ ScannerIdle

\* the decoder filling a header map it keeps from one call to the next
Decode_SharedHeaders ==
  /\ Len(heap) < MaxDecodes
  /\ \E raw \in RawInputs :
       LET kept == IF heap = <<>> THEN EmptyMap ELSE heap[Len(heap)].Headers
       IN  heap' = Append(heap, parseHTTPResponse([freshResponse(raw) EXCEPT !.Headers = kept]))
  /\ UNCHANGED decodeIdle

\* parseHTTPResponse(response) on a fresh response holding raw
Decode ==
  /\ Len(heap) < MaxDecodes
  /\ \E raw \in RawInputs : heap' = Append(heap, parseHTTPResponse(freshResponse(raw)))
  /\ UNCHANGED decodeIdle

NextDecode ==
  \/ Decode

SpecDecode == InitDecode /\ [][NextDecode]_vars

(***************************************************************************)
(* Advisory specification: a locally computed verdict on two decoded       *)
(* responses is handed to runAIAnalysis with a provider that errs, returns *)
(* nothing, or returns one of a bounded set of assessments.  verdicts maps *)
(* "local" to the verdict before and "advised" to the verdict after.       *)
(***************************************************************************)
Assessors == {"down", "silent", "alarmist", "skeptic", "unsure"}

AdviseThresholds == {0, DefaultThreshold}

adviseIdle ==
  <<comparison, dpc, payVars, baselineResponse, results, report, pc, netlog, open, rets, peer>>

InitAdvise ==
  /\ \E b \in Responses, t \in Responses : heap = <<b, t>>
  /\ \E t \in AdviseThresholds : threshold = SetConfidenceThreshold(t)
  /\ aiProvider \in Assessors
  /\ verdicts = EmptyMap
  /\ comparison = <<>> /\ dpc = "off"
  /\ PayloadIdle
  /\ baselineResponse = Nil /\ results = <<>> /\ report = <<>>
  /\ pc = Idle /\ netlog = <<>> /\ open = 0 /\ rets = <<>> /\ peer = <<>>

\* the verdict an analyzer returns for the comparison of the two responses
A_Analyze ==
  /\ verdicts = EmptyMap
  /\ \E req \in {"CL.TE", "TE.CL", "Mixed-TE", "Obfuscated-TE"} :
       \E c \in CompareResponses(heap, 1, 2) :
         verdicts' = [k \in {"local"} |-> analyze(threshold, Target, req, c)]
  /\ UNCHANGED <<heap, threshold, aiProvider, adviseIdle>>

\* the verdict TestCLTE_GPOST builds from the probe's response
A_PoisoningVerdict ==
  /\ verdicts = EmptyMap
  /\ verdicts' = [k \in {"local"} |-> poisoningVerdict(Target, heap, 1, 2)]
  /\ UNCHANGED <<heap, threshold, aiProvider, adviseIdle>>

A_runAIAnalysis ==
  /\ DOMAIN verdicts = {"local"}
  /\ verdicts' = [k \in {"local", "advised"} |->
                    IF k = "local" THEN verdicts["local"]
                    ELSE runAIAnalysis(aiProvider, verdicts["local"].Technique,
                                       verdicts["local"])]
  /\ UNCHANGED <<heap, threshold, aiProvider, adviseIdle>>

NextAdvise ==
  \/ A_Analyze
  \/ A_PoisoningVerdict
  \/ A_runAIAnalysis

SpecAdvise == InitAdvise /\ [][NextAdvise]_vars

(***************************************************************************)
(* Properties of the detector (checked under SpecDetect).                  *)
(***************************************************************************)
\* the two decoded responses agree in every field
IdenticalResponses ==
  /\ heap[1].StatusCode = heap[2].StatusCode
  /\ heap[1].Headers = heap[2].Headers
  /\ heap[1].Body = heap[2].Body
  /\ heap[1].TimingMS = heap[2].TimingMS
  /\ heap[1].ConnectionClosed = heap[2].ConnectionClosed

NoChangeReported ==
  /\ ~comparison.StatusCodeChanged
  /\ ~comparison.ConnectionBehaviorChanged
  /\ ~comparison.BodyChanged
  /\ DOMAIN comparison.HeadersAdded = {}
  /\ DOMAIN comparison.HeadersRemoved = {}
  /\ DOMAIN comparison.HeadersModified = {}
  /\ comparison.TimingDiffMS = 0
  /\ comparison.BodySizeDiff = 0

AllVerdictsZero ==
  \A k \in DOMAIN verdicts :
    verdicts[k].Confidence = F64Zero /\ ~verdicts[k].Suspicious

\* C1: for identical decoded responses CompareResponses reports no change at
\* all and every analyzer returns confidence 0 and Suspicious = false, at
\* every threshold.
C1_IdenticalNoChange ==
  (dpc = "analyze" /\ IdenticalResponses) => (NoChangeReported /\ AllVerdictsZero)

\* the part of C1 the code does satisfy: identical responses never raise a verdict
C1_IdenticalVerdictsZero ==
  (dpc = "analyze" /\ IdenticalResponses) => AllVerdictsZero

\* a strong signal as the signal table defines it, read off the two responses
StrongSignalFired ==
  \/ heap[2].StatusCode # heap[1].StatusCode /\ heap[2].StatusCode = 400
  \/ heap[2].StatusCode # heap[1].StatusCode /\ heap[2].StatusCode >= 500
  \/ ~heap[1].ConnectionClosed /\ heap[2].ConnectionClosed

\* C3: a verdict is suspicious iff a strong signal fired and the clamped
\* confidence is at least the threshold; weak signals alone never suffice.
C3_SuspiciousIffStrongAndThreshold ==
  \A k \in DOMAIN verdicts :
    verdicts[k].Suspicious <=>
      (StrongSignalFired /\ F64Ge(verdicts[k].Confidence, threshold))

\* weak signals alone reach a positive threshold and the verdict stays clean
C3_Witness ==
  \E k \in DOMAIN verdicts :
    /\ ~StrongSignalFired
    /\ F64Gt(threshold, F64Zero)
    /\ F64Ge(verdicts[k].Confidence, threshold)
    /\ ~verdicts[k].Suspicious

\* the worked example: baseline 200 / 50 ms / 2000 bytes / Transfer-Encoding
\* present, test 400 / 10 ms / 1700 bytes / Transfer-Encoding absent,
\* threshold 0.5, analysed by AnalyzeCLTE
C4_Scenario ==
  /\ heap[1] = HTTPResponse("", 200, HdrTE, Body2000, 50, FALSE, FALSE)
  /\ heap[2] = HTTPResponse("", 400, HdrCL, Body1700, 10, FALSE, FALSE)
  /\ threshold = F64(50)
  /\ "CL.TE" \in DOMAIN verdicts

\* C4 as claimed: confidence exactly 0.25 + 0.15 + 0.10 = 0.50, suspicious.
C4_Claimed ==
  C4_Scenario => (verdicts["CL.TE"].Confidence = F64(50) /\ verdicts["CL.TE"].Suspicious)

\* C4 amended: the 300-byte shrink fires the body signal as well, so the
\* confidence is 0.25 + 0.15 + 0.15 + 0.10 = 0.65, suspicious at 0.5.
C4_Confidence65 ==
  C4_Scenario => (verdicts["CL.TE"].Confidence = F64(65) /\ verdicts["CL.TE"].Suspicious)

C4_Witness == C4_Scenario /\ Len(heap[1].Body) = 2000 /\ Len(heap[2].Body) = 1700

\* the signal table read off the two responses: the weights, in hundredths
\* and in table order, of the signals of a technique that fired
Weight(cond, w) == IF cond THEN <<w>> ELSE <<>>

HasHeader(response, name) == \E k \in DOMAIN response.Headers : EqualFold(k, name)

Status400 == heap[2].StatusCode # heap[1].StatusCode /\ heap[2].StatusCode = 400
Status5xx == heap[2].StatusCode # heap[1].StatusCode /\ heap[2].StatusCode >= 500
NowClosed == ~heap[1].ConnectionClosed /\ heap[2].ConnectionClosed
Faster    == heap[2].TimingMS - heap[1].TimingMS < -30
Slower    == heap[2].TimingMS - heap[1].TimingMS > 1000
Shrunk    == Len(heap[2].Body) - Len(heap[1].Body) < -200
BodyDiffers == heap[2].Body # heap[1].Body
TERemoved == HasHeader(heap[1], "Transfer-Encoding") /\ ~HasHeader(heap[2], "Transfer-Encoding")
CLAdded   == HasHeader(heap[2], "Content-Length") /\ ~HasHeader(heap[1], "Content-Length")

FiredWeights(technique) ==
  CASE technique = "CL.TE" ->
         Weight(Status400, 25) \o Weight(Status5xx, 35) \o Weight(Faster, 15)
           \o Weight(NowClosed, 20) \o Weight(Shrunk, 15) \o Weight(TERemoved, 10)
    [] technique = "TE.CL" ->
         Weight(Status400, 25) \o Weight(Status5xx, 35) \o Weight(Slower, 25)
           \o Weight(NowClosed, 20) \o Weight(BodyDiffers, 10) \o Weight(CLAdded, 10)
    [] technique = "Mixed-TE" ->
         Weight(Status400, 30) \o Weight(Status5xx, 40) \o Weight(NowClosed, 20)
    [] technique = "Obfuscated-TE" ->
         Weight(Status400, 25) \o Weight(Status5xx, 35) \o Weight(Faster, 15)
           \o Weight(NowClosed, 20) \o Weight(Shrunk, 15) \o Weight(TERemoved, 10)

\* the float64 sum of weights, added in order
RECURSIVE WeightSum(_)
WeightSum(ws) ==
  IF ws = <<>> THEN F64Zero
  ELSE F64Add(WeightSum(SubSeq(ws, 1, Len(ws) - 1)), F64(ws[Len(ws)]))

Capped(x) == IF F64Gt(x, F64(100)) THEN F64(100) ELSE x

\* C16: every analyzer's confidence is the (float64) sum of the weights of
\* exactly the signals that fired, capped at 1.0, and so lies in [0, 1]; for
\* Mixed-TE the signals are status 400 (0.30), status >= 500 (0.40) and
\* connection closed (0.20) only.
C16_ConfidenceIsWeightSum ==
  \A k \in DOMAIN verdicts :
    /\ verdicts[k].Confidence = Capped(WeightSum(FiredWeights(k)))
    /\ F64Ge(verdicts[k].Confidence, F64Zero)
    /\ F64Ge(F64(100), verdicts[k].Confidence)

\* all five TE.CL signals that can fire together did (weights 1.00 in all),
\* and Mixed-TE scored its two on a response that is also slower and changed
C16_Witness ==
  /\ {"TE.CL", "Mixed-TE"} \subseteq DOMAIN verdicts
  /\ FiredWeights("TE.CL") = <<35, 25, 20, 10, 10>>
  /\ FiredWeights("Mixed-TE") = <<40, 20>>
  /\ verdicts["Mixed-TE"].Confidence = WeightSum(<<40, 20>>)
  /\ F64Ge(F64(100), verdicts["TE.CL"].Confidence)

\* C17: a verdict that is not suspicious at the detector's threshold is not
\* suspicious when the same comparison is analysed again at any threshold at
\* least as high, and the confidence is the same at every threshold.
C17_ThresholdMonotone ==
  \A k \in DOMAIN verdicts :
    \A t \in RequestedThresholds :
      LET raised == SetConfidenceThreshold(t)
          again  == analyze(raised, Target, k, comparison)
      IN  /\ again.Confidence = verdicts[k].Confidence
          /\ (F64Ge(raised, threshold) /\ ~verdicts[k].Suspicious) => ~again.Suspicious

\* a strong signal scored below 0.4: suspicious at threshold 0, not at 0.4,
\* and not at 0.9 either
C17_Witness ==
  \E k \in DOMAIN verdicts :
    /\ threshold = F64(40)
    /\ StrongSignalFired
    /\ ~verdicts[k].Suspicious
    /\ analyze(F64Zero, Target, k, comparison).Suspicious
    /\ ~analyze(F64(90), Target, k, comparison).Suspicious

\* the lower-cased names in the three header delta maps
DeltaKeys ==
  DOMAIN comparison.HeadersAdded \cup DOMAIN comparison.HeadersRemoved
    \cup DOMAIN comparison.HeadersModified

DeltasDisjoint ==
  /\ DOMAIN comparison.HeadersAdded \cap DOMAIN comparison.HeadersRemoved = {}
  /\ DOMAIN comparison.HeadersAdded \cap DOMAIN comparison.HeadersModified = {}
  /\ DOMAIN comparison.HeadersRemoved \cap DOMAIN comparison.HeadersModified = {}

\* no two names of the response's header map are equal up to letter case
SingleSpelling(response) ==
  \A j, k \in DOMAIN response.Headers : EqualFold(j, k) => j = k

\* a header of the baseline and one of the test with names equal up to letter
\* case and equal values is in none of the three delta maps
SharedHeadersUnreported ==
  \A bk \in DOMAIN heap[1].Headers, tk \in DOMAIN heap[2].Headers :
    (EqualFold(bk, tk) /\ heap[1].Headers[bk] = heap[2].Headers[tk])
      => ToLower(bk) \notin DeltaKeys

\* the header signals score by presence up to letter case (TERemoved, CLAdded)
HeaderSignalsFire ==
  \A k \in DOMAIN verdicts : verdicts[k].Confidence = Capped(WeightSum(FiredWeights(k)))

\* C25: header deltas are keyed case-insensitively.  A header the baseline
\* and the test both carry, under names equal up to letter case and with
\* equal values, is in none of HeadersAdded, HeadersRemoved, HeadersModified;
\* the three are pairwise disjoint; and the Transfer-Encoding-removed and
\* Content-Length-added signals fire whatever the letter case of the names.
C25_CaseInsensitiveDeltas ==
  dpc = "analyze" =>
    /\ SharedHeadersUnreported
    /\ DeltasDisjoint
    /\ HeaderSignalsFire

\* the part of C25 the code satisfies: the same, for responses none of which
\* carries one header name in two spellings
C25_WhenSingleSpelling ==
  dpc = "analyze" =>
    /\ (SingleSpelling(heap[1]) /\ SingleSpelling(heap[2])) => SharedHeadersUnreported
    /\ DeltasDisjoint
    /\ HeaderSignalsFire

\* the rationale lists as many different signals as fired for technique k
NamesFiredSignals(k) ==
  LET r == verdicts[k].Reason
  IN  /\ r.kind = "Potential vulnerability detected"
      /\ r.technique = k
      /\ r.confidence = verdicts[k].Confidence
      /\ Len(r.signals) = Len(FiredWeights(k))
      /\ Cardinality({ r.signals[i] : i \in DOMAIN r.signals }) = Len(r.signals)

\* the rationale is the statement of confidence against threshold
StatesConfidence(k) ==
  verdicts[k].Reason = [kind |-> "Insufficient evidence", technique |-> k,
                        confidence |-> verdicts[k].Confidence, threshold |-> threshold]

\* C26 as stated: the rationale of every verdict names every signal that
\* fired, suspicious or not, and is the confidence-versus-threshold statement
\* only when no signal fired.
C26_NamesSignalsAlways ==
  \A k \in DOMAIN verdicts :
    IF FiredWeights(k) # <<>> THEN NamesFiredSignals(k) ELSE StatesConfidence(k)

\* C26: the rationale of a suspicious verdict names every signal that fired;
\* the rationale of a verdict that is not suspicious is the
\* confidence-versus-threshold statement and names no signal, whether or not
\* signals fired.
C26_NamesSignalsWhenSuspicious ==
  \A k \in DOMAIN verdicts :
    IF verdicts[k].Suspicious THEN NamesFiredSignals(k) ELSE StatesConfidence(k)

\* three signals fired for CL.TE and the verdict is not suspicious, so its
\* rationale names none of them, while the TE.CL verdict on the same
\* comparison is suspicious and names its signals
C26_Witness ==
  /\ {"CL.TE", "TE.CL"} \subseteq DOMAIN verdicts
  /\ ~verdicts["CL.TE"].Suspicious
  /\ Len(FiredWeights("CL.TE")) = 3
  /\ StatesConfidence("CL.TE")
  /\ verdicts["TE.CL"].Suspicious
  /\ Len(FiredWeights("TE.CL")) >= 2
  /\ NamesFiredSignals("TE.CL")

\* the analyzer of technique k counted the timing signal: without the timing
\* difference the same comparison scores differently
TimingFired(k) ==
  analyze(threshold, Target, k, comparison).Confidence
    # analyze(threshold, Target, k, [comparison EXCEPT !.TimingDiffMS = 0]).Confidence

\* the weights of the CL.TE family, with the timing signal firing when fast
FamilyWeights(fast) ==
  Weight(Status400, 25) \o Weight(Status5xx, 35) \o Weight(fast, 15)
    \o Weight(NowClosed, 20) \o Weight(Shrunk, 15) \o Weight(TERemoved, 10)

TimingDelta == heap[2].TimingMS - heap[1].TimingMS

CLTEFamily == DOMAIN verdicts \cap {"CL.TE", "Obfuscated-TE"}

\* C27 as stated: in AnalyzeCLTE and AnalyzeObfuscatedTE the timing signal
\* (weight 0.15) fires exactly when the test response is at least 30 ms
\* faster than the baseline, a delta of exactly -30 ms included.
C27_FiresFrom30 ==
  \A k \in CLTEFamily :
    /\ TimingFired(k) <=> TimingDelta <= -30
    /\ verdicts[k].Confidence = Capped(WeightSum(FamilyWeights(TimingDelta <= -30)))

\* C27: in AnalyzeCLTE and AnalyzeObfuscatedTE the timing signal (weight
\* 0.15) fires exactly when the test response is more than 30 ms faster than
\* the baseline: for every delta < -30 ms, and not for -30 ms or above.
C27_FiresBeyond30 ==
  \A k \in CLTEFamily :
    /\ TimingFired(k) <=> TimingDelta < -30
    /\ verdicts[k].Confidence = Capped(WeightSum(FamilyWeights(TimingDelta < -30)))

\* a test response exactly 30 ms faster scored no timing weight in either
\* analyzer
C27_Witness ==
  /\ CLTEFamily = {"CL.TE", "Obfuscated-TE"}
  /\ TimingDelta = -30
  /\ ~TimingFired("CL.TE") /\ ~TimingFired("Obfuscated-TE")
  /\ verdicts["CL.TE"].Confidence = WeightSum(<<25, 20>>)

(***************************************************************************)
(* Properties of the payload builders (checked under SpecPayload).         *)
(***************************************************************************)
\* number of bytes up to and including the blank line that ends the headers
HeadersEnd(p) == Index(p, "\r\n\r\n") + 3

\* the value of the Content-Length header of a request
DeclaredContentLength(p) ==
  LET head  == SubSeq(p, 1, HeadersEnd(p) - 2)
      name  == "\r\nContent-Length: "
      rest  == SubSeq(head, Index(head, name) + Len(name), Len(head))
  IN  DigitsValue(SubSeq(rest, 1, Index(rest, "\r\n") - 1))

\* the payload ends with the smuggled body; the bytes between the headers and it
BytesBeforeSmuggled(p, smuggled) == Len(p) - Len(smuggled) - HeadersEnd(p)

BuiltCLTE ==
  /\ built # <<>>
  /\ built.technique = "CL.TE"
  /\ built.err = ""
  /\ built.smuggled # ""
  /\ SubSeq(built.payload, Len(built.payload) - Len(built.smuggled) + 1, Len(built.payload))
       = built.smuggled

\* C2: the Content-Length a CL.TE payload declares equals the number of bytes
\* between the end of the headers and the first byte of the smuggled body,
\* whatever the smuggled body's length.
C2_ContentLengthCoversPrefix ==
  BuiltCLTE =>
    DeclaredContentLength(built.payload) = BytesBeforeSmuggled(built.payload, built.smuggled)

\* the builder was called with an empty smuggled body or obfuscation value
EmptyArgument ==
  /\ built # <<>>
  /\ \/ built.smuggled = ""
     \/ built.technique = "Obfuscated-TE" /\ built.obfuscation = ""

\* C15: a technique payload built with an empty smuggled body (CL.TE, TE.CL,
\* Obfuscated-TE, poisoning byte) or an empty obfuscation value is an error and
\* no payload.
C15_EmptyArgumentFails ==
  EmptyArgument => (built.err # "" /\ built.payload = "")

\* the part of C15 the code satisfies: the Generator's three builders refuse
\* an empty argument
C15_GeneratorRefusesEmpty ==
  (EmptyArgument /\ built.technique \in {"CL.TE", "TE.CL", "Obfuscated-TE"})
    => (built.err # "" /\ built.payload = "")

\* the zero-size chunk that ends a chunked body
ChunkTerminator == "0\r\n\r\n"

\* the header block of a request, from the CRLF that ends the request line
HeaderBlock(p) == SubSeq(p, Index(p, "\r\n"), HeadersEnd(p) - 2)

\* C24: a TE.CL payload has its Content-Length header before its
\* Transfer-Encoding: chunked header, declares as Content-Length the byte
\* length of the zero-size chunk terminator that starts the body, and has the
\* smuggled body right after that terminator, for every base request and
\* smuggled body (the empty one included, where the builder function is
\* called directly).
C24_TECLFraming ==
  /\ (built # <<>> /\ built.technique = "TE.CL" /\ built.err = "") =>
       LET p    == built.payload
           head == HeaderBlock(p)
           cl   == Index(head, "\r\nContent-Length: ")
           te   == Index(head, "\r\nTransfer-Encoding: chunked\r\n")
           body == SubSeq(p, HeadersEnd(p) + 1, Len(p))
       IN  /\ cl > 0 /\ te > cl
           /\ DeclaredContentLength(p) = Len(ChunkTerminator)
           /\ body = ChunkTerminator \o built.smuggled
  /\ \A f \in {GenerateTECL("GET / HTTP/1.1\r\n", ""), GenerateTECL_v1("GET / HTTP/1.1\r\n", "")} :
       f = "GET / HTTP/1.1\r\nContent-Length: 5\r\nTransfer-Encoding: chunked\r\n\r\n0\r\n\r\n"

\* a TE.CL payload for a base request with two extra headers and a smuggled
\* request longer than the terminator
C24_Witness ==
  /\ built # <<>> /\ built.technique = "TE.CL" /\ built.err = ""
  /\ Len(built.smuggled) > Len(ChunkTerminator)
  /\ Contains(built.payload, "\r\nAccept: */*\r\n")
  /\ Contains(built.payload, "\r\nConnection: close\r\n")
  /\ gen.path = "/api"

(***************************************************************************)
(* Properties of the scanner (checked under Spec).                         *)
(***************************************************************************)
lastRet == rets[Len(rets)]

\* the scanner is idle and the last call made was `op`
Returned(op) == pc.at = "idle" /\ rets # <<>> /\ lastRet.op = op

\* netlog belongs to a Run: one in progress, or the one that returned last
InRun == (pc.at # "idle" /\ pc.op = "Run") \/ Returned("Run")

IsAttempt(e) == e.ev \in {"dial", "dial failed"}
IsFailure(e) == e.ev \in {"dial failed", "write failed"}

\* the requests the sender tried to connect for, in order
attempts ==
  LET a == SelectSeq(netlog, IsAttempt)
  IN  [i \in 1..Len(a) |-> a[i].req]

techniques(rs) == [i \in 1..Len(rs) |-> rs[i].Technique]

IsPrefix(a, b) == Len(a) <= Len(b) /\ a = SubSeq(b, 1, Len(a))

RunOrder == <<"baseline", "CL.TE", "TE.CL", "Mixed-TE", "Obfuscated-TE", "smuggle", "probe">>
FiveVerdicts == <<"CL.TE", "TE.CL", "Mixed-TE", "Obfuscated-TE", "CL.TE-GPOST">>

\* the method a step from the idle scanner calls
calledMethod == IF pc'.at = "idle" THEN rets'[Len(rets')].op ELSE pc'.op

\* C5: while no baseline has been captured, a call of any Test* method returns
\* the "baseline not captured" error at once, with nothing sent on the network
\* and nothing appended to results; and a CaptureBaseline whose send fails
\* leaves baselineResponse as it was (nil on a scanner without a baseline).
C5_NoProbeBeforeBaseline ==
  [][ /\ (pc.at = "idle" /\ baselineResponse = Nil /\ calledMethod \in TestMethods)
           => /\ pc'.at = "idle"
              /\ rets'[Len(rets')].err = errNoBaseline
              /\ netlog' = <<>>
              /\ open' = 0
              /\ results' = results
              /\ baselineResponse' = Nil
      /\ (pc.req = "baseline" /\ pc'.at = "idle" /\ rets'[Len(rets')].err # <<>>)
           => /\ baselineResponse' = baselineResponse
              /\ results' = results ]_vars

C5_Witness ==
  /\ Len(rets) = 2
  /\ rets[1].op = "CaptureBaseline" /\ rets[1].err # <<>>
  /\ rets[2].op = "TestCLTE_GPOST" /\ rets[2].err = errNoBaseline
  /\ baselineResponse = Nil /\ results = <<>> /\ netlog = <<>>

\* C6 as stated: in a Run the sender connects for baseline, CL.TE, TE.CL,
\* Mixed-TE, Obfuscated-TE, smuggle, probe in that order, and when Run returns
\* nil the results list holds exactly the five verdicts CL.TE, TE.CL, Mixed-TE,
\* Obfuscated-TE, CL.TE-GPOST.
C6_ExactlyFive ==
  InRun =>
    /\ IsPrefix(attempts, RunOrder)
    /\ (Returned("Run") /\ lastRet.err = <<>>) => techniques(results) = FiveVerdicts

\* C6: in a Run the sender connects for baseline, CL.TE, TE.CL, Mixed-TE,
\* Obfuscated-TE, smuggle, probe in that order, and when Run returns nil all
\* seven were sent and Run has appended exactly the five verdicts CL.TE, TE.CL,
\* Mixed-TE, Obfuscated-TE, CL.TE-GPOST, in that order, to the verdicts the
\* scanner already held (none on a new scanner).
C6_AppendsFive ==
  InRun =>
    /\ IsPrefix(attempts, RunOrder)
    /\ (Returned("Run") /\ lastRet.err = <<>>) =>
         /\ attempts = RunOrder
         /\ Len(results) = lastRet.base + 5
         /\ techniques(SubSeq(results, lastRet.base + 1, Len(results))) = FiveVerdicts

C6_Witness ==
  /\ Returned("Run") /\ lastRet.err = <<>>
  /\ lastRet.base = 0
  /\ techniques(results) = FiveVerdicts
  /\ attempts = RunOrder

\* the error SendRequest's failure e surfaces as
failureError(e) ==
  sendErrorWrap(e.req)
    \o <<IF e.ev = "dial failed" THEN "failed to connect" ELSE "failed to send request">>

\* C7: once a send of a Run has failed (the connect or the write), Run has
\* returned that step's error to the caller and the sender has made no
\* further connection attempt and no further write.
C7_AbortOnTransportError ==
  InRun =>
    \A i \in DOMAIN netlog :
      IsFailure(netlog[i]) =>
        /\ Returned("Run")
        /\ lastRet.err = failureError(netlog[i])
        /\ \A j \in (i + 1)..Len(netlog) : netlog[j].ev = "close"

C7_Witness ==
  /\ Returned("Run")
  /\ \E i \in DOMAIN netlog : netlog[i] = [ev |-> "write failed", req |-> "Mixed-TE"]
  /\ Len(attempts) = 4
  /\ Len(results) = lastRet.base + 2

\* C8: after a Run that a transport error aborted, GetReport returns a report
\* (not nil) that aggregates exactly the verdicts in results.
C8_PartialReport ==
  (Returned("Run") /\ lastRet.err # <<>>) =>
    /\ report # <<>>
    /\ report = GenerateReport(Target, results)

\* the part of C8 about results: a Run never removes or changes a verdict
C8_ResultsKept ==
  [][ (pc.at # "idle" /\ pc.op = "Run") => IsPrefix(results, results') ]_vars

\* C9: the sender never holds two connections; the probe's connection is
\* attempted only right after the smuggling request's connection was opened,
\* written, read and closed; and when the smuggling request's send fails the
\* call ends with an error, no probe attempt and no CL.TE-GPOST verdict.
C9_ProbeAfterSmuggleClosed ==
  /\ open = (IF pc.at \in {"write", "read"} THEN 1 ELSE 0)
  /\ \A i \in DOMAIN netlog :
       (netlog[i].req = "probe" /\ IsAttempt(netlog[i])) =>
         /\ i > 4
         /\ netlog[i - 4] = [ev |-> "dial", req |-> "smuggle"]
         /\ netlog[i - 3] = [ev |-> "write", req |-> "smuggle"]
         /\ netlog[i - 2] = [ev |-> "read", req |-> "smuggle"]
         /\ netlog[i - 1] = [ev |-> "close", req |-> "smuggle"]
  /\ \A i \in DOMAIN netlog :
       (netlog[i].req = "smuggle" /\ IsFailure(netlog[i])) =>
         /\ pc.at = "idle"
         /\ lastRet.err = failureError(netlog[i])
         /\ \A j \in DOMAIN netlog : netlog[j].req # "probe"
         /\ \A k \in (lastRet.base + 1)..Len(results) : results[k].Technique # "CL.TE-GPOST"

C9_Witness ==
  /\ pc.req = "probe" /\ pc.at = "read" /\ open = 1
  /\ Len(netlog) >= 6

\* C10: every CL.TE-GPOST verdict whose probe response has GPOST in its body
\* is suspicious.
C10_GpostAlwaysSuspicious ==
  \A i \in DOMAIN results :
    (results[i].Technique = "CL.TE-GPOST"
       /\ Contains(heap[results[i].TestResponse].Body, "GPOST"))
      => results[i].Suspicious

C10_Witness ==
  \E i \in DOMAIN results :
    /\ results[i].Technique = "CL.TE-GPOST"
    /\ aiProvider = "none"
    /\ Contains(heap[results[i].TestResponse].Body, "GPOST")
    /\ heap[results[i].TestResponse].StatusCode = heap[results[i].BaselineResponse].StatusCode
    /\ results[i].Suspicious

\* the probe response carries an indicator token of a rejected method
HasIndicator(raw) ==
  Contains(ToUpper(raw), "GPOST") \/ Contains(ToUpper(raw), "UNRECOGNIZED METHOD")

\* the poisoning verdicts whose probe response carries no indicator token
PlainPoisoningVerdicts ==
  { i \in DOMAIN results :
      /\ results[i].Technique = "CL.TE-GPOST"
      /\ ~HasIndicator(heap[results[i].TestResponse].Raw) }

\* C11 as stated: a CL.TE-GPOST verdict whose probe response has no indicator
\* token is suspicious whenever the probe's status code differs from the
\* baseline's, whatever the two codes are.
C11_AnyStatusChange ==
  \A i \in PlainPoisoningVerdicts :
    heap[results[i].TestResponse].StatusCode # heap[results[i].BaselineResponse].StatusCode
      => results[i].Suspicious

\* C11: a CL.TE-GPOST verdict whose probe response has no indicator token is
\* suspicious whenever the probe's status code is 400 or 405 and differs from
\* the baseline's; on a scanner without an advisory provider it is suspicious
\* in no other case.
C11_RejectionStatusChange ==
  \A i \in PlainPoisoningVerdicts :
    LET probe    == heap[results[i].TestResponse].StatusCode
        base     == heap[results[i].BaselineResponse].StatusCode
        rejected == probe \in {400, 405} /\ probe # base
    IN  /\ rejected => results[i].Suspicious
        /\ (aiProvider = "none" /\ results[i].Suspicious) => rejected

C11_Witness ==
  \E i \in PlainPoisoningVerdicts :
    /\ aiProvider = "none"
    /\ heap[results[i].TestResponse].StatusCode = 405
    /\ heap[results[i].BaselineResponse].StatusCode = 200
    /\ results[i].Suspicious

\* how the read that produced a returned response ended (the replies differ
\* in their bytes, so the bytes name the reply)
readEnd(response) == (CHOOSE r \in Replies : r.raw = response.Raw).readErr

\* C12: a response SendRequest returned without error has ConnectionClosed
\* true exactly when the read ended at end of stream (the peer closed the
\* socket), and false when the read deadline elapsed.
C12_ClosedIffPeerClosed ==
  \A a \in DOMAIN heap :
    /\ readEnd(heap[a]) = "EOF" => heap[a].ConnectionClosed
    /\ readEnd(heap[a]) = "timeout" => ~heap[a].ConnectionClosed

\* the half of C12 the code satisfies: a read the deadline ended leaves the flag false
C12_TimeoutLeavesOpen ==
  \A a \in DOMAIN heap : readEnd(heap[a]) = "timeout" => ~heap[a].ConnectionClosed

\* the method called last: the one in progress, or the one that returned
currentOp == IF pc.at = "idle" THEN lastRet.op ELSE pc.op

\* the request the scan sends once the response to req has been read ("" when
\* the call returns instead)
requestAfter(req) ==
  IF req = "smuggle" THEN "probe"
  ELSE IF currentOp = "Run" /\ req # "probe"
  THEN RunOrder[(CHOOSE k \in DOMAIN RunOrder : RunOrder[k] = req) + 1]
  ELSE ""

\* the read logged at netlog[i] did not stop the scan: the connection was
\* closed and the next request was attempted, or the call returned nil
Proceeds(i) ==
  LET next == requestAfter(netlog[i].req)
  IN  /\ netlog[i + 1] = [ev |-> "close", req |-> netlog[i].req]
      /\ IF next = ""
         THEN pc.at = "idle" /\ lastRet.err = <<>> /\ Len(netlog) = i + 1
         ELSE \/ Len(netlog) = i + 1 /\ pc = [pc EXCEPT !.req = next, !.at = "dial"]
              \/ Len(netlog) > i + 1 /\ IsAttempt(netlog[i + 2]) /\ netlog[i + 2].req = next

\* C13: a read the deadline ended is not an error.  Every response SendRequest
\* returned has a nil Error and holds the bytes of the reply that was read, and
\* ConnectionClosed is false when the deadline ended the read (a deadline that
\* passes with no byte read gives the empty response); after every read
\* the scan goes on to its next step; and a call returns a send error only when
\* a connect or a write failed.
C13_TimeoutIsNotAnError ==
  /\ \A a \in DOMAIN heap :
       /\ \E r \in Replies : heap[a].Raw = r.raw /\ heap[a].TimingMS = r.timing
       /\ heap[a].Error = FALSE
       /\ readEnd(heap[a]) = "timeout" => ~heap[a].ConnectionClosed
  /\ receivedResponse("", 10000, "timeout")
       = HTTPResponse("", 0, EmptyMap, "", 10000, FALSE, FALSE)
  /\ \A i \in DOMAIN netlog : netlog[i].ev = "read" => Proceeds(i)
  /\ (pc.at = "idle" /\ rets # <<>> /\ lastRet.err \notin {<<>>, errNoBaseline}) =>
       \E i \in DOMAIN netlog :
         IsFailure(netlog[i]) /\ lastRet.err = failureError(netlog[i])

\* a Run completed although the deadline ended the read of its first probe,
\* whose partial bytes are kept
C13_Witness ==
  /\ Returned("Run") /\ lastRet.err = <<>> /\ lastRet.base = 0
  /\ readEnd(heap[results[1].TestResponse]) = "timeout"
  /\ heap[results[1].TestResponse].Raw = "HTTP/1.1 405 Method Not Allowed\r\nAllow: GET"
  /\ heap[results[1].TestResponse].StatusCode = 405
  /\ Len(results) = 5

IsWrite(e) == e.ev \in {"write", "write failed"}
IsRead(e) == e.ev = "read"

\* in one call no request is connected for twice or written twice, and a
\* write goes to the connection just opened for its request
SingleAttempts ==
  /\ \A i, j \in DOMAIN netlog :
       (netlog[i].req = netlog[j].req /\ IsAttempt(netlog[i]) /\ IsAttempt(netlog[j])) => i = j
  /\ \A i, j \in DOMAIN netlog :
       (netlog[i].req = netlog[j].req /\ IsWrite(netlog[i]) /\ IsWrite(netlog[j])) => i = j
  /\ \A i \in DOMAIN netlog :
       IsWrite(netlog[i]) => (i > 1 /\ netlog[i - 1] = [ev |-> "dial", req |-> netlog[i].req])

\* C14 as stated: no SendRequest connects or writes twice, no step is sent
\* again, a complete Run makes exactly seven connection attempts and an
\* aborted Run fewer than seven.
C14_AbortedRunFewer ==
  /\ SingleAttempts
  /\ Returned("Run") =>
       IF lastRet.err = <<>> THEN Len(attempts) = 7 ELSE Len(attempts) < 7

\* C14: no SendRequest connects or writes twice, no step is sent again, a
\* complete Run makes exactly seven connection attempts (baseline, CL.TE,
\* TE.CL, Mixed-TE, Obfuscated-TE, smuggle, probe) each written and read once,
\* and an aborted Run makes at most seven and reads fewer than seven responses.
C14_NoRetry ==
  /\ SingleAttempts
  /\ Returned("Run") =>
       IF lastRet.err = <<>>
       THEN /\ attempts = RunOrder
            /\ Len(SelectSeq(netlog, IsWrite)) = 7
            /\ Len(SelectSeq(netlog, IsRead)) = 7
       ELSE /\ Len(attempts) <= 7
            /\ Len(SelectSeq(netlog, IsRead)) < 7

\* a Run aborted at its seventh connection attempt
C14_Witness ==
  /\ Returned("Run") /\ lastRet.err # <<>>
  /\ Len(attempts) = 7
  /\ netlog[Len(netlog)] = [ev |-> "dial failed", req |-> "probe"]
  /\ Len(SelectSeq(netlog, IsRead)) = 6

\* a Run has just returned nil: report was generated from results as they are
RunCompleted == Returned("Run") /\ lastRet.err = <<>>

SuspiciousVerdicts == { i \in DOMAIN results : results[i].Suspicious }

\* the earliest of the suspicious verdicts with the highest confidence
MostConfident ==
  CHOOSE i \in SuspiciousVerdicts :
    /\ \A j \in SuspiciousVerdicts : F64Ge(results[i].Confidence, results[j].Confidence)
    /\ \A j \in SuspiciousVerdicts :
         results[j].Confidence = results[i].Confidence => i <= j

\* C18: the report's MostLikelyTechnique is the technique of the suspicious
\* verdict with the highest confidence, the earliest in probe order among
\* equals; verdicts that are not suspicious never determine it.
C18_MostLikelyIsMostConfident ==
  (RunCompleted /\ SuspiciousVerdicts # {}) =>
    report.MostLikelyTechnique = results[MostConfident].Technique

\* the part of C18 the code satisfies: the rule holds whenever some suspicious
\* verdict has a confidence above 0, and a report names no technique that no
\* suspicious verdict has
C18_WhenConfidencePositive ==
  RunCompleted =>
    /\ (SuspiciousVerdicts # {} /\ F64Gt(results[MostConfident].Confidence, F64Zero))
         => report.MostLikelyTechnique = results[MostConfident].Technique
    /\ report.MostLikelyTechnique
         \in {""} \cup { results[i].Technique : i \in SuspiciousVerdicts }

\* C19: after a completed Run GetMostLikelyTechnique returns "None" exactly
\* when no verdict is suspicious, and otherwise the technique of one of the
\* suspicious verdicts, never the empty string.
C19_NamesASuspiciousTechnique ==
  RunCompleted =>
    /\ GetMostLikelyTechnique(report) = "None" <=> SuspiciousVerdicts = {}
    /\ SuspiciousVerdicts # {} =>
         GetMostLikelyTechnique(report) \in { results[i].Technique : i \in SuspiciousVerdicts }

\* the part of C19 the code satisfies: "None" exactly when nothing is suspicious
C19_NoneIffClean ==
  RunCompleted => (GetMostLikelyTechnique(report) = "None" <=> SuspiciousVerdicts = {})

\* a step other than the one in which a CaptureBaseline stores its response
NoCapture == ~(pc.req = "baseline" /\ pc.at = "read")

\* C22: the baseline is never mutated after capture.  Except where a
\* CaptureBaseline stores a new response, every step leaves the scanner's
\* baseline the same object with every field as captured (status, headers,
\* body, timing, connection-closed), and leaves the baseline every verdict
\* refers to unchanged as well; a verdict, when appended, refers to the
\* scanner's baseline; and all verdicts of one Run refer to the baseline that
\* Run captured.
C22_BaselineFrozen ==
  /\ [][ /\ (baselineResponse # Nil /\ NoCapture) =>
              /\ baselineResponse' = baselineResponse
              /\ heap'[baselineResponse] = heap[baselineResponse]
         /\ \A i \in DOMAIN results :
              /\ i \in DOMAIN results'
              /\ results'[i].BaselineResponse = results[i].BaselineResponse
              /\ heap'[results[i].BaselineResponse] = heap[results[i].BaselineResponse]
         /\ Len(results') > Len(results) =>
              results'[Len(results')].BaselineResponse = baselineResponse ]_vars
  /\ [](InRun => \A i \in DOMAIN results :
                    (i > (IF pc.at = "idle" THEN lastRet.base ELSE pc.base))
                      => results[i].BaselineResponse = baselineResponse)

\* a Run completed whose baseline still reads 200 with its captured body and
\* timing, although a probe of that Run was answered otherwise
C22_Witness ==
  /\ Returned("Run") /\ lastRet.err = <<>> /\ Len(results) = 5
  /\ heap[baselineResponse] = receivedResponse("HTTP/1.1 200 OK\r\nServer: a\r\n\r\nhello", 50, "EOF")
  /\ heap[results[1].TestResponse].StatusCode = 405
  /\ heap[results[5].TestResponse].StatusCode = 400
  /\ \A i \in DOMAIN results : results[i].BaselineResponse = baselineResponse

\* the sequence of verdict positions is strictly increasing
Increasing(q) == \A i, j \in DOMAIN q : i < j => q[i] < q[j]

Range(q) == { q[i] : i \in DOMAIN q }

\* report r partitions the verdicts rs it was generated from
Partitions(r, rs) ==
  /\ r.TotalTests = Len(rs)
  /\ r.Vulnerable = Len(r.Suspicious)
  /\ r.Vulnerable + Len(r.NonSuspicious) = r.TotalTests
  /\ Increasing(r.Suspicious) /\ Increasing(r.NonSuspicious)
  /\ Range(r.Suspicious) = { i \in DOMAIN rs : rs[i].Suspicious }
  /\ Range(r.NonSuspicious) = { i \in DOMAIN rs : ~rs[i].Suspicious }

\* C30: the results list is append-only and the report partitions it.  No
\* step removes, reorders or replaces a verdict, and a step adds at most one;
\* a Test* call that returns nil has appended exactly one verdict and one
\* that returns an error none; and a report, when generated, has TotalTests
\* equal to the number of verdicts, Vulnerable equal to the length of
\* Suspicious, Vulnerable plus the length of NonSuspicious equal to
\* TotalTests, and both lists in probe order.
C30_AppendOnlyPartition ==
  /\ [][ /\ IsPrefix(results, results')
         /\ Len(results') <= Len(results) + 1
         /\ report' # report => Partitions(report', results') ]_vars
  /\ [](/\ (pc.at = "idle" /\ rets # <<>> /\ lastRet.op \in TestMethods) =>
             Len(results) = lastRet.base + (IF lastRet.err = <<>> THEN 1 ELSE 0)
        /\ report # <<>> =>
             Partitions(report, SubSeq(results, 1, report.TotalTests)))

\* a completed Run whose report lists two suspicious and three clean
\* verdicts, each list in probe order
C30_Witness ==
  /\ Returned("Run") /\ lastRet.err = <<>> /\ lastRet.base = 0
  /\ report.TotalTests = 5 /\ report.Vulnerable = 2
  /\ report.Suspicious = <<1, 5>>
  /\ report.NonSuspicious = <<2, 3, 4>>

(***************************************************************************)
(* Properties of two scanners (checked under SpecPair).                    *)
(***************************************************************************)
\* every step a scanner in state s can take when it is the only one
aloneSteps(s) ==
  CASE s.pc.at = "idle"  -> IF s.rets = <<>> THEN {runCalled(s)} ELSE {}
    [] s.pc.at = "dial"  -> dialed(s)
    [] s.pc.at = "write" -> written(s)
    [] s.pc.at = "read"  -> readFrom(s, Responses)

\* s's Run has returned
runReturned(s) == s.pc.at = "idle" /\ s.rets # <<>>

noFailure(log) == \A i \in DOMAIN log : ~IsFailure(log[i])

\* C23: two scanners for different targets share no mutable state.  Every
\* step of the pair is a step the first scanner takes alone that leaves the
\* second as it is, or a step the second takes alone that leaves the
\* baseline, results, report and sender of the first as they are; each
\* scanner's verdicts and report carry its own target; and a Run returns nil
\* with its five verdicts whenever none of its own sends failed, whatever
\* became of the other scanner's Run.
C23_NoSharedState ==
  /\ [][ \/ Next /\ peer' = peer
         \/ /\ peer' \in aloneSteps(peer)
            /\ UNCHANGED <<heap, threshold, baselineResponse, results, report,
                           aiProvider, pc, netlog, open, rets>> ]_vars
  /\ [](/\ \A i \in DOMAIN results : results[i].Target = Target
        /\ \A i \in DOMAIN peer.results : peer.results[i].Target = PeerTarget
        /\ report # <<>> => report = GenerateReport(Target, results)
        /\ peer.report # <<>> => peer.report = GenerateReport(PeerTarget, peer.results)
        /\ (Returned("Run") /\ noFailure(netlog)) =>
             (lastRet.err = <<>> /\ techniques(results) = FiveVerdicts)
        /\ (runReturned(peer) /\ noFailure(peer.netlog)) =>
             /\ peer.rets[1].err = <<>>
             /\ techniques(peer.results) = FiveVerdicts)

\* the first scanner's Run was aborted after two verdicts while the second
\* scanner's Run was under way, and the second completed
C23_Witness ==
  /\ Returned("Run") /\ lastRet.err # <<>> /\ Len(results) = 2
  /\ IsFailure(netlog[Len(netlog)]) /\ netlog[Len(netlog)].req = "Mixed-TE"
  /\ runReturned(peer) /\ peer.rets[1].err = <<>>
  /\ techniques(peer.results) = FiveVerdicts
  /\ peer.report.TotalTests = 5

(***************************************************************************)
(* Properties of the decoder (checked under SpecDecode).                   *)
(***************************************************************************)
Decoded(r) == [StatusCode |-> r.StatusCode, Headers |-> r.Headers, Body |-> r.Body]

\* C29: decoding is deterministic and stateless.  Two responses decoded from
\* the same raw bytes have equal status code, header map and body, whatever
\* was decoded before or between them; each equals what decoding those bytes
\* gives when nothing else was decoded; and of a header name that occurs
\* twice in one spelling the last value is the one stored.
C29_DecodingStateless ==
  /\ \A i, j \in DOMAIN heap :
       heap[i].Raw = heap[j].Raw => Decoded(heap[i]) = Decoded(heap[j])
  /\ \A i \in DOMAIN heap :
       Decoded(heap[i]) = Decoded(parseHTTPResponse(freshResponse(heap[i].Raw)))
  /\ \A i \in DOMAIN heap :
       heap[i].Raw = DupRaw =>
         /\ heap[i].StatusCode = 200
         /\ heap[i].Headers = [k \in {"X-Id", "Server"} |-> IF k = "X-Id" THEN "2" ELSE "a"]
         /\ heap[i].Body = "hello\r\n\r\nworld"

\* the response with the repeated header was decoded first and third, with
\* a response carrying other headers decoded in between
C29_Witness ==
  /\ Len(heap) = 3
  /\ heap[1].Raw = DupRaw /\ heap[3].Raw = DupRaw
  /\ heap[2].StatusCode = 404
  /\ heap[2].Headers = [k \in {"Server", "x-id"} |-> IF k = "Server" THEN "b" ELSE "3"]
  /\ heap[3].Headers["X-Id"] = "2"

(***************************************************************************)
(* Properties of the advisory step (checked under SpecAdvise).             *)
(***************************************************************************)
Advised == DOMAIN verdicts = {"local", "advised"}

\* C20: applying an assessment never downgrades a verdict: a verdict that
\* was suspicious before runAIAnalysis is suspicious after it, and neither
\* Confidence, ConfidenceScore nor the value of GetConfidence is lower
\* after it than before.
C20_NeverDowngrades ==
  Advised =>
    LET before == verdicts["local"]
        after == verdicts["advised"]
    IN  /\ before.Suspicious => after.Suspicious
        /\ F64Ge(after.Confidence, before.Confidence)
        /\ F64Ge(after.ConfidenceScore, before.ConfidenceScore)
        /\ F64Ge(GetConfidence(after), GetConfidence(before))

\* a suspicious verdict with positive confidence met an assessment that
\* says "not vulnerable" with a lower confidence, and was kept
C20_Witness ==
  /\ Advised
  /\ aiProvider = "skeptic"
  /\ verdicts["local"].Suspicious
  /\ F64Gt(verdicts["local"].Confidence, F64(10))
  /\ verdicts["advised"].Suspicious
  /\ verdicts["advised"].ConfidenceScore = F64(10)

\* the provider returned an assessment that runAIAnalysis takes into account
Assessed ==
  /\ Advised
  /\ ~AnalyzeResponses(aiProvider, verdicts["local"].Technique).err
  /\ AnalyzeResponses(aiProvider, verdicts["local"].Technique).aiResult # <<>>
  /\ F64Gt(AnalyzeResponses(aiProvider, verdicts["local"].Technique).aiResult[1].Confidence,
           F64Zero)

Assessment == AnalyzeResponses(aiProvider, verdicts["local"].Technique).aiResult[1]

\* C28: when the assessment's confidence is higher than the verdict's locally
\* computed confidence, the confidence reported afterwards (GetConfidence, and
\* the Confidence field GenerateReport ranks by) equals the assessment's;
\* when it is not higher, the reported confidence stays the local value.
C28_ReportsHigherAssessment ==
  Assessed =>
    LET before == verdicts["local"]
        after  == verdicts["advised"]
    IN  IF F64Gt(Assessment.Confidence, before.Confidence)
        THEN GetConfidence(after) = Assessment.Confidence
               /\ after.Confidence = Assessment.Confidence
        ELSE GetConfidence(after) = before.Confidence
               /\ after.Confidence = before.Confidence

\* what the code does instead: the assessment's confidence goes to
\* ConfidenceScore, which is reported only for a verdict whose local
\* confidence is 0, and is never what the report ranks by
C28_RaisesScoreOnly ==
  Assessed =>
    LET before == verdicts["local"]
        after  == verdicts["advised"]
    IN  /\ after.Confidence = before.Confidence
        /\ after.ConfidenceScore = Assessment.Confidence
        /\ GetConfidence(after) = IF F64Gt(before.Confidence, F64Zero)
                                    THEN before.Confidence ELSE Assessment.Confidence

(***************************************************************************)
(* Properties of the scanner with a failing provider (checked under        *)
(* SpecOutage).                                                            *)
(***************************************************************************)
\* the verdicts the detector alone gives for the responses verdict v refers
\* to in heap h
LocalVerdicts(h, v) ==
  IF v.Technique = "CL.TE-GPOST"
  THEN { poisoningVerdict(Target, h, v.BaselineResponse, v.TestResponse) }
  ELSE { analyze(threshold, Target, v.Technique, c) :
           c \in CompareResponses(h, v.BaselineResponse, v.TestResponse) }

\* the calls, reads and returns of the scan are those of a scan that no
\* advisory error stopped
ScanGoesOn ==
  /\ \A i \in DOMAIN netlog : netlog[i].ev = "read" => Proceeds(i)
  /\ (pc.at = "idle" /\ rets # <<>> /\ lastRet.err \notin {<<>>, errNoBaseline}) =>
       \E i \in DOMAIN netlog : IsFailure(netlog[i])
  /\ (pc.at = "idle" /\ rets # <<>> /\ lastRet.op \in TestMethods /\ lastRet.err = <<>>) =>
       Len(results) = lastRet.base + 1
  /\ (Returned("Run") /\ \A i \in DOMAIN netlog : ~IsFailure(netlog[i])) =>
       /\ lastRet.err = <<>>
       /\ techniques(SubSeq(results, lastRet.base + 1, Len(results))) = FiveVerdicts

\* C21: when every call of the advisory service fails the scan does not
\* abort: every step that changes results appends one verdict, which is
\* exactly the locally computed one, and keeps the earlier ones; after every
\* read the scan goes on to its next step or the call returns nil with its
\* verdict appended; a call fails only when a connect or a write failed; and
\* a Run without a transport failure appends all five verdicts and returns nil.
C21_AdvisoryErrorIgnored ==
  /\ [][ results' # results =>
            /\ Len(results') = Len(results) + 1
            /\ IsPrefix(results, results')
            /\ results'[Len(results')] \in LocalVerdicts(heap', results'[Len(results')]) ]_vars
  /\ []ScanGoesOn

\* a Run completed with a failing provider and kept a suspicious local verdict
C21_Witness ==
  /\ aiProvider = "down"
  /\ Returned("Run") /\ lastRet.err = <<>>
  /\ Len(results) = 5
  /\ results[1].Suspicious
  /\ ~results[2].Suspicious

=============================================================================
